---- MODULE Spec2Model ----
(***************************************************************************)
(* Model of the lliam memory engine: the record store (MemoryDatabase over *)
(* sql.js with an FTS4 keyword index), the embedding provider, hybrid       *)
(* search, capture with deduplication, and the MemoryManager facade.        *)
(*                                                                          *)
(* Conventions                                                              *)
(*  - a text is a sequence of words; the word " " stands for a run of       *)
(*    whitespace, so <<>> is the empty string and <<" ">> a blank string;   *)
(*  - an optional value is <<>> (absent, SQL NULL, undefined) or <<v>>;     *)
(*  - scores, confidences and weights are fixed point, 1000 = 1.0; a       *)
(*    weight times a score (the score of a search result) is in millionths; *)
(*  - a vector is a sequence of integers, 5 = 1.0, so that <<3,4>>,         *)
(*    <<4,3>>, <<5,0>> ... are unit vectors and a dot product is in 1/25.   *)
(***************************************************************************)
EXTENDS Integers, Sequences, FiniteSets, TLC

VARIABLES
    isOpen,     \* MemoryDatabase.db !== null
    memories,   \* table memories: rowid -> row
    fts,        \* table memories_fts: rowid -> indexed content
    dirty,      \* MemoryDatabase.dirty
    file,       \* the file at dbPath
    tmpFile,    \* the file at dbPath + ".tmp"
    savePc,     \* position inside save(): "idle", "writing", "written"
    saveThen,   \* what the caller of save() does after it: "none", "close"
    nextId,     \* number of UUIDs handed out so far
    now,        \* Date.now()
    ret,        \* what the last completed call returned
    orig,       \* history: id -> the row as createMemory wrote it, while untouched
    reopened,   \* history: ids created before the latest open()
    saved,      \* history: ids that were stored when some save() completed
    srch,       \* the HybridSearcher.search() call in flight
    tasks,      \* the MemoryManager store/update/capture calls in flight, by slot
    captureConfig, \* MemoryCapture.config
    manager,    \* MemoryManager.initialized, and where initialize()/shutdown() stands
    hooks,      \* PluginRegistry.hooks, in registration order
    exec,       \* the ToolExecutor.execute call in flight, or the last one
    processing, \* ChannelRegistry.processing: the keys of the messages in flight
    messageHandler, \* ChannelRegistry.messageHandler !== null
    inbound,    \* the handleInboundMessage calls, by slot
    recallConfig, \* MemoryRecaller.config
    storage,    \* SessionStorage: the session files, sessionId -> messages
    cache,      \* SessionManager.cache, in the Map's insertion order
    locks,      \* SessionManager.locks
    nextSession, \* number of session UUIDs handed out so far
    sessionCalls, \* the addMessage/clearSession calls, by caller
    recency,    \* history: the session ids in the order of their last access
    wallClock,  \* Date.now() as the gateway reads it, in half minutes
    connections, \* WebSocketHandler.connections: the state of each connection
    dedups      \* history: the last two storeWithDeduplication calls made since
                \* anything else changed the rows

\* What the channel registry holds.
channelVars == <<processing, messageHandler, inbound>>

\* What the session manager holds.
sessionVars == <<storage, cache, locks, nextSession, sessionCalls, recency>>

\* What the gateway holds.
gatewayVars == <<wallClock, connections>>

\* What the plugin runtime, the channels, the recaller, the session manager
\* and the gateway hold; the memory subsystem never touches it.
others == <<hooks, exec, channelVars, recallConfig, sessionVars, gatewayVars>>

vars == <<isOpen, memories, fts, dirty, file, tmpFile, savePc, saveThen,
          nextId, now, ret, orig, reopened, saved, srch, tasks, captureConfig, others,
          manager, dedups>>

\* What the record store's own methods never touch.
callers == <<srch, tasks, captureConfig, others, manager>>

----------------------------------------------------------------------------
(* Bounds of the model *)

MaxIds == 2
MaxClock == 1
MaxAccess == 2

----------------------------------------------------------------------------
(* Generic helpers *)

None == <<>>
Some(v) == <<v>>
IsSome(o) == o # <<>>
OrElse(o, d) == IF o = <<>> THEN d ELSE o[1]

MaxOf(S) == CHOOSE x \in S : \A y \in S : y <= x
MinOf(S) == CHOOSE x \in S : \A y \in S : x <= y
Min2(a, b) == IF a <= b THEN a ELSE b

RECURSIVE SumSeq(_)
SumSeq(s) == IF s = <<>> THEN 0 ELSE s[1] + SumSeq(Tail(s))

RECURSIVE Flatten(_)
Flatten(ss) == IF ss = <<>> THEN <<>> ELSE ss[1] \o Flatten(Tail(ss))

\* The keys of a table in ascending order (a table scan goes in rowid order).
RECURSIVE Ascending(_)
Ascending(S) == IF S = {} THEN <<>> ELSE <<MinOf(S)>> \o Ascending(S \ {MinOf(S)})

Without(f, k) == [x \in DOMAIN f \ {k} |-> f[x]]

----------------------------------------------------------------------------
(* schema.ts: embedding codec *)

\* The four bytes of one Float32 element.  The bit pattern of an element is
\* modelled as the 32-bit two's complement of its fixed-point value.
FloatBytes(x) ==
    <<x % 256, (x \div 256) % 256, (x \div 65536) % 256,
      IF x < 0 THEN 255 ELSE (x \div 16777216) % 256>>

BytesFloat(b) ==
    LET low == b[1] + 256 * b[2] + 65536 * b[3]
    IN  IF b[4] >= 128 THEN low + (b[4] - 256) * 16777216
                       ELSE low + b[4] * 16777216

\* (mutant) byteLength taken for the element count.
encodeEmbeddingShort(embedding) ==
    SubSeq(Flatten([i \in 1..Len(embedding) |-> FloatBytes(embedding[i])]),
           1, Len(embedding))

\* Buffer.from(embedding.buffer, embedding.byteOffset, embedding.byteLength)
encodeEmbedding(embedding) ==
    Flatten([i \in 1..Len(embedding) |-> FloatBytes(embedding[i])])

\* new Float32Array(buffer.buffer.slice(byteOffset, byteOffset + byteLength))
decodeEmbedding(buffer) ==
    [i \in 1..(Len(buffer) \div 4) |-> BytesFloat(SubSeq(buffer, 4 * i - 3, 4 * i))]

\* JSON.stringify of a list of strings, as a token stream.
RECURSIVE JsonItems(_)
JsonItems(tags) ==
    IF tags = <<>> THEN <<>>
    ELSE IF Len(tags) = 1 THEN <<tags[1]>>
    ELSE <<tags[1], ",">> \o JsonItems(Tail(tags))

JSONstringify(tags) == <<"[">> \o JsonItems(tags) \o <<"]">>

\* JSON.parse of such a token stream.
JSONparse(json) ==
    LET inner == SubSeq(json, 2, Len(json) - 1)
    IN  SelectSeq(inner, LAMBDA t : t # ",")

----------------------------------------------------------------------------
(* db.ts: rows and the CRUD statements *)

NoRows == <<>>

IdsOf(mem) == {mem[r].id : r \in DOMAIN mem}
RowidsOf(mem, id) == {r \in DOMAIN mem : mem[r].id = id}

\* SQLite gives a row of a rowid table the largest rowid in use plus one.
NewRowid(mem) == IF DOMAIN mem = {} THEN 1 ELSE MaxOf(DOMAIN mem) + 1

\* INSERT INTO memories (...) VALUES (...)
NewRow(input, id, t) ==
    [ id                 |-> id,
      category           |-> OrElse(input.category, "other"),
      content            |-> input.content,
      embedding          |-> IF IsSome(input.embedding)
                             THEN Some(encodeEmbedding(input.embedding[1]))
                             ELSE None,
      embeddingModel     |-> input.embeddingModel,
      embeddingDims      |-> IF IsSome(input.embedding)
                             THEN Some(Len(input.embedding[1]))
                             ELSE None,
      sourceType         |-> OrElse(input.sourceType, "manual"),
      sourceSession      |-> input.sourceSession,
      sourceMessageIndex |-> input.sourceMessageIndex,
      confidence         |-> OrElse(input.confidence, 1000),
      tags               |-> JSONstringify(OrElse(input.tags, <<>>)),
      createdAt          |-> t,
      updatedAt          |-> t,
      lastAccessedAt     |-> t,
      accessCount        |-> 0 ]

\* rowToRecord: the MemoryRecord a caller gets for a row.
rowToRecord(row) == [row EXCEPT !.tags = JSONparse(row.tags)]

MemAfterCreate(mem, input, id, t) == mem @@ (NewRowid(mem) :> NewRow(input, id, t))

\* INSERT INTO memories_fts (rowid, content) VALUES (last_insert_rowid(), ?)
FtsAfterCreate(f, mem, input) == f @@ (NewRowid(mem) :> input.content)

\* updateMemory: the SET list is empty.
NoSets(upd) ==
    /\ upd.content = None /\ upd.category = None /\ upd.embedding = None
    /\ upd.embeddingModel = None /\ upd.confidence = None /\ upd.tags = None

UpdatedRowKeepsDims(row, upd, t) ==
    [row EXCEPT
       !.content        = OrElse(upd.content, @),
       !.category       = OrElse(upd.category, @),
       !.embedding      = IF IsSome(upd.embedding)
                          THEN Some(encodeEmbedding(upd.embedding[1])) ELSE @,
       !.embeddingModel = IF IsSome(upd.embeddingModel) THEN upd.embeddingModel ELSE @,
       !.confidence     = OrElse(upd.confidence, @),
       !.tags           = IF IsSome(upd.tags) THEN JSONstringify(upd.tags[1]) ELSE @,
       !.updatedAt      = t]

\* The SET list updateMemory builds from the fields the input carries.
UpdatedRow(row, upd, t) ==
    [row EXCEPT
       !.content        = OrElse(upd.content, @),
       !.category       = OrElse(upd.category, @),
       !.embedding      = IF IsSome(upd.embedding)
                          THEN Some(encodeEmbedding(upd.embedding[1])) ELSE @,
       !.embeddingDims  = IF IsSome(upd.embedding)
                          THEN Some(Len(upd.embedding[1])) ELSE @,
       !.embeddingModel = IF IsSome(upd.embeddingModel) THEN upd.embeddingModel ELSE @,
       !.confidence     = OrElse(upd.confidence, @),
       !.tags           = IF IsSome(upd.tags) THEN JSONstringify(upd.tags[1]) ELSE @,
       !.updatedAt      = t]

\* UPDATE memories SET ... WHERE id = ?
MemAfterUpdate(mem, id, upd, t) ==
    [r \in DOMAIN mem |-> IF mem[r].id = id THEN UpdatedRow(mem[r], upd, t) ELSE mem[r]]

\* (mutant) the index entry is left alone when content changes.
FtsAfterUpdateStale(f, mem, id, upd) == f

\* DELETE FROM memories_fts WHERE rowid = ?; INSERT INTO memories_fts ...
FtsAfterUpdate(f, mem, id, upd) ==
    IF IsSome(upd.content) /\ RowidsOf(mem, id) # {}
    THEN LET rowid == MinOf(RowidsOf(mem, id))
         IN  Without(f, rowid) @@ (rowid :> upd.content[1])
    ELSE f

MemAfterDelete(mem, id) == [r \in DOMAIN mem \ RowidsOf(mem, id) |-> mem[r]]
FtsAfterDelete(f, mem, id) == [r \in DOMAIN f \ RowidsOf(mem, id) |-> f[r]]

SessionRowidsAll(mem, sessionId) == DOMAIN mem

\* SELECT rowid FROM memories WHERE source_session = ?
SessionRowids(mem, sessionId) == {r \in DOMAIN mem : mem[r].sourceSession = Some(sessionId)}
MemAfterDeleteBySession(mem, s) == [r \in DOMAIN mem \ SessionRowids(mem, s) |-> mem[r]]
FtsAfterDeleteBySession(f, mem, s) == [r \in DOMAIN f \ SessionRowids(mem, s) |-> f[r]]

FtsRebuiltEmpty(mem) == NoRows

\* DELETE FROM memories_fts; INSERT INTO memories_fts SELECT rowid, content FROM memories
FtsRebuilt(mem) == [r \in DOMAIN mem |-> mem[r].content]

countMemoriesAll(mem, category) == Cardinality(DOMAIN mem)

\* countMemories: COUNT(*) with WHERE category = ? when a category is given
\* and is not the empty string.
countMemories(mem, category) ==
    IF IsSome(category) /\ category[1] # ""
    THEN Cardinality({r \in DOMAIN mem : mem[r].category = category[1]})
    ELSE Cardinality(DOMAIN mem)

MemAfterAccessAll(mem, id, t) ==
    [r \in DOMAIN mem |->
        [mem[r] EXCEPT !.lastAccessedAt = t, !.accessCount = @ + 1]]

\* UPDATE memories SET last_accessed_at = ?, access_count = access_count + 1 WHERE id = ?
MemAfterAccess(mem, id, t) ==
    [r \in DOMAIN mem |->
        IF mem[r].id = id
        THEN [mem[r] EXCEPT !.lastAccessedAt = t, !.accessCount = @ + 1]
        ELSE mem[r]]

----------------------------------------------------------------------------
(* db.ts: the file *)

\* No file at dbPath; a file that is not a database image (cut short in its
\* first page, or other bytes); a file of zero bytes.
NoFile == [kind |-> "none", memories |-> NoRows, fts |-> NoRows]
Torn   == [kind |-> "torn", memories |-> NoRows, fts |-> NoRows]
EmptyFile == [kind |-> "empty", memories |-> NoRows, fts |-> NoRows]

\* db.export(): the whole database as one byte image.
Export(mem, f) == [kind |-> "db", memories |-> mem, fts |-> f]

----------------------------------------------------------------------------
(* embeddings.ts *)

\* The words of a text: split(/\s+/) without the empty pieces.
Words(text) == SelectSeq(text, LAMBDA w : w # " ")

\* SimpleHashEmbeddingProvider.hashToVector.  The SHA-256 feature hashing is
\* represented by a fixed assignment of unit vectors to the texts of the model;
\* what is kept of the code: the text is trimmed first, a text with nothing left
\* gives the all-zero vector, any other text a unit vector, and equal texts
\* give equal vectors.
HashToVector(text) ==
    LET normalized == Words(text)
    IN  IF normalized = <<>> THEN <<0, 0>>
        ELSE CASE normalized = <<"aa">>             -> <<5, 0>>
               [] normalized = <<"aa", "bb">>       -> <<3, 4>>
               [] normalized = <<"aa", "bb", "bb">> -> <<4, 3>>
               [] normalized = <<"bb">>             -> <<0, 5>>
               [] normalized = <<"cc">>             -> <<-5, 0>>
               [] OTHER                             -> <<0, -5>>

\* cosineSimilarity throws when the lengths differ.
DimensionMismatch(a, b) == Len(a) # Len(b)

\* cosineSimilarity: the dot product, in units of 1/25.
cosineSimilarity(a, b) == SumSeq([i \in 1..Len(a) |-> a[i] * b[i]])

\* (sim + 1) / 2 in thousandths, for sim in units of 1/25.
NormalizedSim(sim) == sim * 20 + 500

----------------------------------------------------------------------------
(* db.ts: keyword search *)

\* getAllEmbeddings: SELECT id, embedding FROM memories WHERE embedding IS NOT NULL
getAllEmbeddings(mem) ==
    LET rows == SelectSeq(Ascending(DOMAIN mem), LAMBDA r : IsSome(mem[r].embedding))
    IN  [i \in 1..Len(rows) |->
            [id |-> mem[rows[i]].id, embedding |-> decodeEmbedding(mem[rows[i]].embedding[1])]]

\* listMemories: SELECT * FROM memories WHERE category = ? AND source_session = ?,
\* either condition only when given; with the default limit of 100 every such
\* row is returned (the order among them is left out).
listMemories(mem, category, sourceSession) ==
    {rowToRecord(mem[r]) :
        r \in {x \in DOMAIN mem :
                  /\ (IsSome(category) /\ category[1] # "") => mem[x].category = category[1]
                  /\ (IsSome(sourceSession) /\ sourceSession[1] # "")
                        => mem[x].sourceSession = sourceSession}}

\* getMemoriesByIds: SELECT * FROM memories WHERE id IN (...)
getMemoriesByIds(mem, ids) == {rowToRecord(mem[r]) : r \in {x \in DOMAIN mem : mem[x].id \in ids}}

KeywordTokensAll(query) == query

\* The query's tokens: lower-cased, split on whitespace, longer than one character.
KeywordTokens(query) == SelectSeq(query, LAMBDA t : Len(t) > 1)

Occurrences(tokens, w) == Cardinality({i \in 1..Len(tokens) : tokens[i] = w})

\* WHERE memories_fts MATCH '"t1" "t2" ...': every phrase occurs in the row.
FtsMatches(f, r, phrases) ==
    \A i \in 1..Len(phrases) : Occurrences(Words(f[r]), phrases[i]) > 0

\* The three x values of one phrase: hits in this row, hits in all rows, rows with a hit.
PhraseStats(f, r, w) ==
    << Occurrences(Words(f[r]), w),
       SumSeq([i \in 1..Cardinality(DOMAIN f) |->
                  Occurrences(Words(f[Ascending(DOMAIN f)[i]]), w)]),
       Cardinality({x \in DOMAIN f : Occurrences(Words(f[x]), w) > 0}) >>

\* matchinfo(memories_fts, 'pcnalx') as FTS4 lays it out for a one-column table:
\* p, c, n, then one a (average tokens per row, rounded), one l (tokens of this
\* row), then three x values for each phrase.
MatchInfo(f, r, phrases) ==
    LET n     == Cardinality(DOMAIN f)
        total == SumSeq([i \in 1..n |-> Len(Words(f[Ascending(DOMAIN f)[i]]))])
    IN  << Len(phrases), 1, n, (total + n \div 2) \div n, Len(Words(f[r])) >>
        \o Flatten([i \in 1..Len(phrases) |-> PhraseStats(f, r, phrases[i])])

\* info[k] of the code (0-based); past the end it is undefined, which || turns
\* into the fallback.
InfoOr(info, k, fallback) ==
    IF k + 1 <= Len(info) /\ info[k + 1] # 0 THEN info[k + 1] ELSE fallback

\* Math.log(num / den) in thousandths, num and den positive.
RECURSIVE LnMilli(_, _)
LnMilli(num, den) ==
    IF num < den THEN 0 - LnMilli(den, num)
    ELSE IF num >= 2 * den THEN 693 + LnMilli(num, 2 * den)
    ELSE LET z  == ((num - den) * 1000) \div (num + den)
             z3 == (z * z * z) \div 1000000
             z5 == (z3 * z * z) \div 1000000
         IN  2 * (z + z3 \div 3 + z5 \div 5)

\* One phrase/column term of computeBM25Score, in thousandths (k1 = 1.2, b = 0.75).
BM25Term(info, p, c, i, j) ==
    LET n           == info[3]
        avgTokens   == InfoOr(info, 3 + (i * c + j), 1)
        tokens      == InfoOr(info, 3 + p * c + (i * c + j), 1)
        xBaseOffset == 3 + 2 * p * c + (i * c + j) * 3
        hitsInRow   == InfoOr(info, xBaseOffset, 0)
        docsWithHit == InfoOr(info, xBaseOffset + 2, 0)
    IN  IF hitsInRow = 0 \/ docsWithHit = 0 THEN 0
        ELSE LET idf == LnMilli(2 * n + 2, 2 * docsWithHit + 1)
                 tf  == (22000 * hitsInRow * avgTokens)
                        \div (10 * hitsInRow * avgTokens + 3 * avgTokens + 9 * tokens)
             IN  (idf * tf) \div 1000

\* computeBM25Score: min(1, score / (p * 5)), in thousandths.
computeBM25Score(info) ==
    IF info = <<>> THEN 0
    ELSE LET p == info[1]
             c == info[2]
             n == info[3]
         IN  IF n = 0 \/ p = 0 THEN 0
             ELSE Min2(1000,
                       SumSeq([k \in 1..(p * c) |->
                                  BM25Term(info, p, c, (k - 1) \div c, (k - 1) % c)])
                       \div (p * 5))

\* keywordSearch: the matching rows in rowid order, at most limit of them.
keywordSearch(mem, f, query, limit) ==
    LET phrases == KeywordTokens(query)
        hit(r)  == r \in DOMAIN mem /\ FtsMatches(f, r, phrases)
        rows    == SelectSeq(Ascending(DOMAIN f), hit)
    IN  IF phrases = <<>> THEN <<>>
        ELSE [i \in 1..Min2(limit, Len(rows)) |->
                 [id |-> mem[rows[i]].id,
                  score |-> computeBM25Score(MatchInfo(f, rows[i], phrases))]]

----------------------------------------------------------------------------
(* search.ts: HybridSearcher *)

SeqIds(rs) == {rs[i].id : i \in 1..Len(rs)}
ScoreOf(rs, id) == rs[CHOOSE i \in 1..Len(rs) : rs[i].id = id].score

Unsorted(rs) == rs

SliceAll(rs, n) == rs

\* Array.prototype.sort((a, b) => b.score - a.score): stable, descending.
RECURSIVE InsertDesc(_, _)
InsertDesc(sorted, x) ==
    IF sorted = <<>> THEN <<x>>
    ELSE IF sorted[Len(sorted)].score >= x.score THEN Append(sorted, x)
    ELSE Append(InsertDesc(SubSeq(sorted, 1, Len(sorted) - 1), x), sorted[Len(sorted)])

RECURSIVE SortDesc(_)
SortDesc(rs) ==
    IF rs = <<>> THEN <<>>
    ELSE InsertDesc(SortDesc(SubSeq(rs, 1, Len(rs) - 1)), rs[Len(rs)])

Slice(rs, n) == SubSeq(rs, 1, Min2(n, Len(rs)))

\* vectorSearch, once the query is embedded; a dimension mismatch scores 0.
vectorScores(mem, queryVec, limit) ==
    LET all    == getAllEmbeddings(mem)
        scored == [i \in 1..Len(all) |->
                     [id |-> all[i].id,
                      score |-> IF DimensionMismatch(queryVec, all[i].embedding) THEN 0
                                ELSE NormalizedSim(cosineSimilarity(queryVec, all[i].embedding))]]
    IN  Slice(SortDesc(SelectSeq(scored, LAMBDA r : r.score > 0)), limit)

\* keywordSearchInternal: scores divided by the largest one (by 1 if that is not positive).
keywordSearchInternal(mem, f, query, limit) ==
    LET rawResults == keywordSearch(mem, f, query, limit)
        maxScore   == MaxOf({rawResults[i].score : i \in 1..Len(rawResults)})
        normalizer == IF maxScore > 0 THEN maxScore ELSE 1000
    IN  IF rawResults = <<>> THEN <<>>
        ELSE [i \in 1..Len(rawResults) |->
                 [id |-> rawResults[i].id,
                  score |-> (rawResults[i].score * 1000) \div normalizer]]

\* (mutant) a record found by one source keeps that source's score unweighted.
finalScoreUnweighted(options, vectorScore, keywordScore) ==
    IF vectorScore > 0 /\ keywordScore > 0
    THEN options.vectorWeight * vectorScore + options.keywordWeight * keywordScore
    ELSE 1000 * (vectorScore + keywordScore)

\* finalScore of mergeResults, in millionths.
finalScore(options, vectorScore, keywordScore) ==
    options.vectorWeight * vectorScore + options.keywordWeight * keywordScore

\* matchType of mergeResults.
matchTypeOf(vectorScore, keywordScore) ==
    IF vectorScore > 0 /\ keywordScore > 0 THEN "hybrid"
    ELSE IF vectorScore > 0 THEN "vector"
    ELSE "keyword"

\* mergeResults: the Map keeps vector results first, then keyword-only ones.
mergeResults(vectorResults, keywordResults, options) ==
    LET fromVector ==
            [i \in 1..Len(vectorResults) |->
                [id |-> vectorResults[i].id,
                 vectorScore |-> vectorResults[i].score,
                 keywordScore |-> IF vectorResults[i].id \in SeqIds(keywordResults)
                                  THEN ScoreOf(keywordResults, vectorResults[i].id)
                                  ELSE 0]]
        keywordOnly ==
            SelectSeq(keywordResults, LAMBDA r : r.id \notin SeqIds(vectorResults))
        fromKeyword ==
            [i \in 1..Len(keywordOnly) |->
                [id |-> keywordOnly[i].id, vectorScore |-> 0,
                 keywordScore |-> keywordOnly[i].score]]
        byId == fromVector \o fromKeyword
    IN  SortDesc([i \in 1..Len(byId) |->
                    [id |-> byId[i].id,
                     score |-> finalScore(options, byId[i].vectorScore, byId[i].keywordScore),
                     matchType |-> matchTypeOf(byId[i].vectorScore, byId[i].keywordScore)]])

\* (mutant) the ids that passed are returned whether or not a row is still there.
searchResultsUnchecked(mem, merged, options) ==
    LET passing == Slice(SelectSeq(merged, LAMBDA r : r.score >= options.minScore * 1000),
                         options.maxResults)
    IN  [i \in 1..Len(passing) |->
            [memory |-> IF passing[i].id \in IdsOf(mem)
                        THEN CHOOSE m \in getMemoriesByIds(mem, {passing[i].id}) : TRUE
                        ELSE [id |-> passing[i].id],
             score |-> passing[i].score,
             matchType |-> passing[i].matchType]]

searchResultsNoThreshold(mem, merged, options) ==
    LET topIds   == SeqIds(Slice(merged, options.maxResults))
        found    == getMemoriesByIds(mem, topIds)
        foundIds == {m.id : m \in found}
        kept     == Slice(SelectSeq(merged, LAMBDA r : r.id \in foundIds), options.maxResults)
    IN  [i \in 1..Len(kept) |->
            [memory |-> CHOOSE m \in found : m.id = kept[i].id,
             score |-> kept[i].score,
             matchType |-> kept[i].matchType]]

\* The tail of search(): threshold, cut, hydrate, drop what is no longer stored.
searchResults(mem, merged, options) ==
    LET passing  == SelectSeq(merged, LAMBDA r : r.score >= options.minScore * 1000)
        topIds   == SeqIds(Slice(passing, options.maxResults))
        found    == getMemoriesByIds(mem, topIds)
        foundIds == {m.id : m \in found}
        kept     == Slice(SelectSeq(passing, LAMBDA r : r.id \in foundIds), options.maxResults)
    IN  [i \in 1..Len(kept) |->
            [memory |-> CHOOSE m \in found : m.id = kept[i].id,
             score |-> kept[i].score,
             matchType |-> kept[i].matchType]]

----------------------------------------------------------------------------
(* Inputs *)

EmbedderModel == "simple-hash-v1"

NoInput ==
    [ content |-> <<>>, category |-> None, embedding |-> None, embeddingModel |-> None,
      sourceType |-> None, sourceSession |-> None, sourceMessageIndex |-> None,
      confidence |-> None, tags |-> None ]

NoUpdate ==
    [ content |-> None, category |-> None, embedding |-> None, embeddingModel |-> None,
      confidence |-> None, tags |-> None ]

\* What callers hand to MemoryDatabase.createMemory.
StoreInputs ==
    { [NoInput EXCEPT !.content = <<"aa">>],
      [NoInput EXCEPT !.content = <<"aa", "bb", "bb">>, !.category = Some("fact"),
                      !.embedding = Some(<<4, 3>>), !.embeddingModel = Some(EmbedderModel),
                      !.sourceType = Some("auto_capture"), !.sourceSession = Some("s1"),
                      !.sourceMessageIndex = Some(0), !.confidence = Some(800),
                      !.tags = Some(<<"t1", "t2">>)] }

\* What callers hand to MemoryDatabase.updateMemory.
StoreUpdates ==
    { NoUpdate,
      [NoUpdate EXCEPT !.content = Some(<<"bb">>)],
      [NoUpdate EXCEPT !.category = Some("preference"), !.confidence = Some(500),
                       !.tags = Some(<<"t1">>), !.embedding = Some(<<0, 5>>),
                       !.embeddingModel = Some(EmbedderModel)] }

\* The smallest input createMemory takes.
LifecycleInputs == { [NoInput EXCEPT !.content = <<"aa">>] }

Sessions == {"s1", "s2"}

\* What callers hand to countMemories: no category, or one of the categories.
CountCategories == {None, Some("preference"), Some("fact"), Some("decision")}
Ids == 1..MaxIds

\* search.ts DEFAULT_OPTIONS.
DEFAULT_OPTIONS ==
    [ maxResults |-> 6, minScore |-> 300, vectorSearch |-> TRUE, keywordSearch |-> TRUE,
      vectorWeight |-> 700, keywordWeight |-> 300, candidateMultiplier |-> 4 ]

\* No search() call in flight.
SearchIdle ==
    [ pc |-> "idle", query |-> <<>>, options |-> DEFAULT_OPTIONS,
      vectorResults |-> <<>>, keywordResults |-> <<>> ]

\* recall.ts DEFAULT_RECALL_CONFIG.
DEFAULT_RECALL_CONFIG ==
    [ enabled |-> TRUE, maxRecall |-> 5, minScore |-> 300, vectorWeight |-> 700,
      keywordWeight |-> 300 ]

\* capture.ts DEFAULT_CAPTURE_CONFIG.
MEMORY_CATEGORIES == {"preference", "fact", "decision", "entity", "procedure", "other"}

DEFAULT_CAPTURE_CONFIG ==
    [ enabled |-> TRUE, deduplicationThreshold |-> 900, minConfidence |-> 600,
      maxPerTurn |-> 5, categories |-> MEMORY_CATEGORIES ]

\* What extractFn came back with: it threw, or a text without brackets, or a
\* text whose bracketed part JSON.parse rejects ("malformed"), or a text
\* holding an array of items.
NoResponse == [kind |-> "text", items |-> <<>>]

\* A MemoryManager that is not initialized and is not on its way.
ManagerDown == [initialized |-> FALSE, pc |-> "idle"]

\* No ToolExecutor.execute call yet.
ExecIdle ==
    [ pc |-> "idle", queue |-> <<>>, ran |-> <<>>, settled |-> 0, blocked |-> FALSE,
      toolRan |-> FALSE ]

\* The callers of addMessage and clearSession, and a caller with no call yet.
SessionCallers == {"c1", "c2"}

\* The WebSocket connections the gateway has accepted, and the state of one
\* after handleConnection: its own RateLimiter with no timestamps, the
\* welcome frame sent.  sent is the last frame sent to the client; accepted
\* is history: when the limiter let a frame through.
Connections == {"w1", "w2"}
Connected == [timestamps |-> <<>>, sent |-> "connect", accepted |-> <<>>]

CallIdle == [pc |-> "idle", op |-> "none", sessionId |-> 0]

\* The slots for handleInboundMessage calls, and one that has not been called.
InboundSlots == {"d1", "d2", "d3"}

InboundIdle == [pc |-> "idle", message |-> None, outcome |-> "none"]

\* The slots for MemoryManager calls that are waiting on a promise.
Slots == {"t1", "t2"}

TaskIdle ==
    [ pc |-> "idle", kind |-> "none", id |-> 0, input |-> NoInput, upd |-> NoUpdate,
      session |-> "", response |-> NoResponse, queue |-> <<>>, storedIds |-> <<>> ]

----------------------------------------------------------------------------
(* What a call returned *)

Ret(op, id, ok, val, n) == [op |-> op, id |-> id, ok |-> ok, val |-> val, n |-> n]

----------------------------------------------------------------------------
(* MemoryDatabase *)

Idle == savePc = "idle"

\* open(): load the file or start empty, run the DDL, mark dirty and save().
LoadedEmpty(f) == Export(NoRows, NoRows)

\* new SQL.Database(buffer): the image's rows; no file and a file of zero
\* bytes both give a database with nothing in it.
Loaded(f) == IF f.kind = "db" THEN f ELSE Export(NoRows, NoRows)

\* The first statement open() runs on bytes that are not a database throws.
NotADatabase(f) == f.kind = "torn"

Opened ==
    /\ IF NotADatabase(file)
       THEN /\ ret' = Ret("open", 0, FALSE, None, 0)
            /\ UNCHANGED <<isOpen, memories, fts, dirty, tmpFile, savePc, saveThen,
                           reopened>>
       ELSE /\ isOpen' = TRUE
            /\ memories' = Loaded(file).memories
            /\ fts' = Loaded(file).fts
            /\ dirty' = TRUE
            /\ tmpFile' = Torn
            /\ savePc' = "writing"
            /\ saveThen' = "none"
            /\ reopened' = 1..nextId
            /\ ret' = Ret("open", 0, TRUE, None, 0)
    /\ UNCHANGED <<file, nextId, now, orig, saved>>

Open ==
    /\ Idle /\ ~isOpen
    /\ Opened
    /\ UNCHANGED callers
    /\ dedups' = <<>>

\* save(): returns at once unless open and dirty; else writeFileSync(tmpPath) starts.
Save ==
    /\ Idle
    /\ IF isOpen /\ dirty
       THEN /\ tmpFile' = Torn
            /\ savePc' = "writing"
            /\ saveThen' = "none"
       ELSE UNCHANGED <<tmpFile, savePc, saveThen>>
    /\ ret' = Ret("save", 0, TRUE, None, 0)
    /\ UNCHANGED <<isOpen, memories, fts, dirty, file, nextId, now, orig, reopened, saved>>
    /\ UNCHANGED callers
    /\ UNCHANGED dedups

\* (mutant) writeFileSync straight onto dbPath, no temporary file.
SaveOverwrite ==
    /\ savePc = "writing"
    /\ file' = Torn
    /\ tmpFile' = Export(memories, fts)
    /\ savePc' = "written"
    /\ UNCHANGED <<isOpen, memories, fts, dirty, saveThen, nextId, now, ret,
                   orig, reopened, saved>>
    /\ UNCHANGED callers
    /\ UNCHANGED dedups

\* writeFileSync(tmpPath, buffer) has written every byte.
SaveWritten ==
    /\ savePc = "writing"
    /\ tmpFile' = Export(memories, fts)
    /\ savePc' = "written"
    /\ UNCHANGED <<isOpen, memories, fts, dirty, file, saveThen, nextId, now, ret,
                   orig, reopened, saved>>
    /\ UNCHANGED callers
    /\ UNCHANGED dedups

\* renameSync(tmpPath, dbPath); dirty = false; then the rest of close().
SaveRenamed ==
    /\ savePc = "written"
    /\ file' = tmpFile
    /\ tmpFile' = NoFile
    /\ dirty' = FALSE
    /\ savePc' = "idle"
    /\ saveThen' = "none"
    /\ IF saveThen = "close"
       THEN /\ isOpen' = FALSE
            /\ memories' = NoRows
            /\ fts' = NoRows
       ELSE UNCHANGED <<isOpen, memories, fts>>
    /\ saved' = saved \cup IdsOf(memories)
    /\ UNCHANGED <<nextId, now, ret, orig, reopened>>
    /\ UNCHANGED callers
    /\ UNCHANGED dedups

\* close(): nothing on a store that is not open; else save(), db.close(), db = null.
Closed ==
    /\ IF isOpen /\ dirty
       THEN /\ tmpFile' = Torn
            /\ savePc' = "writing"
            /\ saveThen' = "close"
            /\ UNCHANGED <<isOpen, memories, fts>>
       ELSE /\ isOpen' = FALSE
            /\ memories' = NoRows
            /\ fts' = NoRows
            /\ UNCHANGED <<tmpFile, savePc, saveThen>>
    /\ UNCHANGED <<dirty, file, nextId, now, orig, reopened, saved>>

Close ==
    /\ Idle
    /\ Closed
    /\ ret' = Ret("close", 0, TRUE, None, 0)
    /\ UNCHANGED callers
    /\ dedups' = <<>>

\* The process dies: everything in memory is gone, the files stay as they are.
Crash ==
    /\ isOpen
    /\ isOpen' = FALSE
    /\ memories' = NoRows
    /\ fts' = NoRows
    /\ dirty' = FALSE
    /\ savePc' = "idle"
    /\ saveThen' = "none"
    /\ ret' = Ret("crash", 0, TRUE, None, 0)
    /\ srch' = SearchIdle
    /\ tasks' = [t \in Slots |-> TaskIdle]
    /\ dedups' = <<>>
    /\ manager' = ManagerDown
    /\ UNCHANGED <<file, tmpFile, nextId, now, orig, reopened, saved, captureConfig, others>>

\* requireDb() on a store that is not open.
RequireDbThrows ==
    /\ Idle /\ ~isOpen
    /\ ret.op # "throw"
    /\ ret' = Ret("throw", 0, FALSE, None, 0)
    /\ UNCHANGED <<isOpen, memories, fts, dirty, file, tmpFile, savePc, saveThen,
                   nextId, now, orig, reopened, saved>>
    /\ UNCHANGED callers
    /\ UNCHANGED dedups

CreateMemory(input) ==
    /\ Idle /\ isOpen
    /\ nextId < MaxIds
    /\ LET id == nextId + 1
       IN  /\ memories' = MemAfterCreate(memories, input, id, now)
           /\ fts' = FtsAfterCreate(fts, memories, input)
           /\ nextId' = id
           /\ orig' = orig @@ (id :> input)
           /\ ret' = Ret("create", id, TRUE, None, 0)
    /\ dirty' = TRUE
    /\ UNCHANGED <<isOpen, file, tmpFile, savePc, saveThen, now, reopened, saved>>
    /\ UNCHANGED callers
    /\ dedups' = <<>>

\* (mutant) the access bump forgets to mark the store dirty.
GetMemoryNoDirty(id) ==
    /\ Idle /\ isOpen
    /\ IF RowidsOf(memories, id) = {}
       THEN /\ ret' = Ret("get", id, FALSE, None, 0)
            /\ UNCHANGED <<memories, dirty>>
       ELSE /\ \A r \in RowidsOf(memories, id) : memories[r].accessCount < MaxAccess
            /\ memories' = MemAfterAccess(memories, id, now)
            /\ UNCHANGED dirty
            /\ ret' = Ret("get", id, TRUE,
                          Some(rowToRecord(memories'[MinOf(RowidsOf(memories, id))])), 0)
    /\ UNCHANGED <<isOpen, fts, file, tmpFile, savePc, saveThen, nextId, now, orig,
                   reopened, saved>>
    /\ UNCHANGED callers
    /\ dedups' = <<>>

GetMemory(id) ==
    /\ Idle /\ isOpen
    /\ IF RowidsOf(memories, id) = {}
       THEN /\ ret' = Ret("get", id, FALSE, None, 0)
            /\ UNCHANGED <<memories, dirty>>
       ELSE /\ \A r \in RowidsOf(memories, id) : memories[r].accessCount < MaxAccess
            /\ memories' = MemAfterAccess(memories, id, now)
            /\ dirty' = TRUE
            /\ ret' = Ret("get", id, TRUE,
                          Some(rowToRecord(memories'[MinOf(RowidsOf(memories, id))])), 0)
    /\ UNCHANGED <<isOpen, fts, file, tmpFile, savePc, saveThen, nextId, now, orig,
                   reopened, saved>>
    /\ UNCHANGED callers
    /\ dedups' = <<>>

UpdateMemory(id, upd) ==
    /\ Idle /\ isOpen
    /\ IF NoSets(upd)
       THEN /\ ret' = Ret("update", id, FALSE, None, 0)
            /\ UNCHANGED <<memories, fts, dirty, orig>>
       ELSE /\ memories' = MemAfterUpdate(memories, id, upd, now)
            /\ fts' = FtsAfterUpdate(fts, memories, id, upd)
            /\ dirty' = TRUE
            /\ orig' = Without(orig, id)
            /\ ret' = Ret("update", id, TRUE, None, 0)
    /\ UNCHANGED <<isOpen, file, tmpFile, savePc, saveThen, nextId, now, reopened, saved>>
    /\ UNCHANGED callers
    /\ dedups' = <<>>

\* (mutant) a delete that found nothing still marks the store dirty.
DeleteMemoryDirty(id) ==
    /\ Idle /\ isOpen
    /\ IF RowidsOf(memories, id) = {}
       THEN /\ ret' = Ret("delete", id, FALSE, None, 0)
            /\ UNCHANGED <<memories, fts, orig>>
       ELSE /\ fts' = FtsAfterDelete(fts, memories, id)
            /\ memories' = MemAfterDelete(memories, id)
            /\ orig' = Without(orig, id)
            /\ ret' = Ret("delete", id, TRUE, None, 0)
    /\ dirty' = TRUE
    /\ UNCHANGED <<isOpen, file, tmpFile, savePc, saveThen, nextId, now, reopened, saved>>
    /\ UNCHANGED callers
    /\ dedups' = <<>>

DeleteMemory(id) ==
    /\ Idle /\ isOpen
    /\ IF RowidsOf(memories, id) = {}
       THEN /\ ret' = Ret("delete", id, FALSE, None, 0)
            /\ UNCHANGED <<memories, fts, dirty, orig>>
       ELSE /\ fts' = FtsAfterDelete(fts, memories, id)
            /\ memories' = MemAfterDelete(memories, id)
            /\ dirty' = TRUE
            /\ orig' = Without(orig, id)
            /\ ret' = Ret("delete", id, TRUE, None, 0)
    /\ UNCHANGED <<isOpen, file, tmpFile, savePc, saveThen, nextId, now, reopened, saved>>
    /\ UNCHANGED callers
    /\ dedups' = <<>>

DeleteBySession(sessionId) ==
    /\ Idle /\ isOpen
    /\ fts' = FtsAfterDeleteBySession(fts, memories, sessionId)
    /\ memories' = MemAfterDeleteBySession(memories, sessionId)
    /\ dirty' = TRUE
    /\ orig' = [i \in DOMAIN orig \ {memories[r].id : r \in SessionRowids(memories, sessionId)}
                  |-> orig[i]]
    /\ ret' = Ret("deleteBySession", 0, TRUE, Some(sessionId),
                  Cardinality(DOMAIN memories) - Cardinality(DOMAIN memories'))
    /\ UNCHANGED <<isOpen, file, tmpFile, savePc, saveThen, nextId, now, reopened, saved>>
    /\ UNCHANGED callers
    /\ dedups' = <<>>

RebuildFtsIndex ==
    /\ Idle /\ isOpen
    /\ fts' = FtsRebuilt(memories)
    /\ dirty' = TRUE
    /\ ret' = Ret("rebuild", 0, TRUE, None, 0)
    /\ UNCHANGED <<isOpen, memories, file, tmpFile, savePc, saveThen, nextId, now, orig,
                   reopened, saved>>
    /\ UNCHANGED callers
    /\ UNCHANGED dedups

\* countMemories(category?)
CountMemories(category) ==
    /\ Idle /\ isOpen
    /\ ret' = Ret("count", 0, TRUE, category, countMemories(memories, category))
    /\ UNCHANGED <<isOpen, memories, fts, dirty, file, tmpFile, savePc, saveThen, nextId,
                   now, orig, reopened, saved>>
    /\ UNCHANGED callers
    /\ UNCHANGED dedups

\* keywordSearch(query, limit)
KeywordSearch(query, limit) ==
    /\ Idle /\ isOpen
    /\ LET results == keywordSearch(memories, fts, query, limit)
       IN  ret' = Ret("keywordSearch", 0, TRUE, [query |-> query, results |-> results],
                      Len(results))
    /\ UNCHANGED <<isOpen, memories, fts, dirty, file, tmpFile, savePc, saveThen, nextId,
                   now, orig, reopened, saved>>
    /\ UNCHANGED callers
    /\ UNCHANGED dedups

\* Date.now() moves on.
Tick ==
    /\ Idle
    /\ now < MaxClock
    /\ now' = now + 1
    /\ UNCHANGED <<isOpen, memories, fts, dirty, file, tmpFile, savePc, saveThen,
                   nextId, ret, orig, reopened, saved>>
    /\ UNCHANGED callers
    /\ UNCHANGED dedups

----------------------------------------------------------------------------
(* The record store on its own: a fresh MemoryDatabase on a path with no file *)

InitExceptFile ==
    /\ isOpen = FALSE
    /\ memories = NoRows
    /\ fts = NoRows
    /\ dirty = FALSE
    /\ tmpFile = NoFile
    /\ savePc = "idle"
    /\ saveThen = "none"
    /\ nextId = 0
    /\ now = 0
    /\ ret = Ret("new", 0, TRUE, None, 0)
    /\ orig = NoRows
    /\ reopened = {}
    /\ saved = {}
    /\ srch = SearchIdle
    /\ tasks = [t \in Slots |-> TaskIdle]
    /\ dedups = <<>>
    /\ manager = ManagerDown
    /\ hooks = <<>>
    /\ exec = ExecIdle
    /\ processing = {}
    /\ messageHandler = FALSE
    /\ inbound = [d \in InboundSlots |-> InboundIdle]
    /\ recallConfig = DEFAULT_RECALL_CONFIG
    /\ storage = NoRows
    /\ cache = <<>>
    /\ locks = {}
    /\ nextSession = 0
    /\ sessionCalls = [c \in SessionCallers |-> CallIdle]
    /\ recency = <<>>
    /\ wallClock = 0
    /\ connections = [c \in Connections |-> Connected]

\* new MemoryDatabase(dbPath) where no file is.
InitExceptConfig ==
    /\ InitExceptFile
    /\ file = NoFile

\* new MemoryCapture(db, embedder) without a config.
Init ==
    /\ InitExceptConfig
    /\ captureConfig = DEFAULT_CAPTURE_CONFIG

Next ==
    \/ Open
    \/ SaveWritten
    \/ SaveRenamed
    \/ RequireDbThrows
    \/ \E input \in StoreInputs : CreateMemory(input)
    \/ \E id \in Ids, upd \in StoreUpdates : UpdateMemory(id, upd)
    \/ \E id \in Ids : DeleteMemory(id)
    \/ \E s \in Sessions : DeleteBySession(s)
    \/ RebuildFtsIndex
    \/ \E category \in CountCategories : CountMemories(category)

Spec == Init /\ [][Next]_vars

\* The store fed with confidences outside [0,1] and with embeddings of
\* several lengths, by createMemory and by updateMemory.
FieldInputs ==
    { [NoInput EXCEPT !.content = <<"aa">>, !.confidence = Some(1500)],
      [NoInput EXCEPT !.content = <<"aa">>, !.embedding = Some(<<4, 3>>),
                      !.embeddingModel = Some(EmbedderModel), !.confidence = Some(500)] }

FieldUpdates ==
    { [NoUpdate EXCEPT !.embedding = Some(<<1, 2, 2>>)],
      [NoUpdate EXCEPT !.confidence = Some(-200)],
      [NoUpdate EXCEPT !.content = Some(<<"bb">>)] }

FieldNext ==
    \/ Open
    \/ SaveWritten
    \/ SaveRenamed
    \/ \E input \in FieldInputs : CreateMemory(input)
    \/ \E id \in IdsOf(memories), upd \in FieldUpdates : UpdateMemory(id, upd)
    \/ \E id \in IdsOf(memories) : DeleteMemory(id)

FieldSpec == Init /\ [][FieldNext]_vars

\* keywordSearch over contents that hold one-character words, with queries
\* that are empty, blank, of one-character words only, and with longer words.
KeywordInputs ==
    { [NoInput EXCEPT !.content = <<"a", "aa">>],
      [NoInput EXCEPT !.content = <<"a", "b">>] }

KeywordQueries == { <<>>, <<" ">>, <<"a">>, <<"a", "b">>, <<"aa">>, <<"a", "aa">> }

KeywordNext ==
    \/ Open
    \/ SaveWritten
    \/ SaveRenamed
    \/ \E input \in KeywordInputs : CreateMemory(input)
    \/ \E id \in IdsOf(memories) : DeleteMemory(id)
    \/ \E query \in KeywordQueries, limit \in {1, 20} : KeywordSearch(query, limit)

KeywordSpec == Init /\ [][KeywordNext]_vars

\* The store with getMemory among the operations that change rows.
AccessNext ==
    \/ Open
    \/ SaveWritten
    \/ SaveRenamed
    \/ \E input \in LifecycleInputs : CreateMemory(input)
    \/ \E id \in Ids : GetMemory(id)
    \/ \E id \in Ids : UpdateMemory(id, [NoUpdate EXCEPT !.content = Some(<<"bb">>)])
    \/ \E id \in Ids : DeleteMemory(id)
    \/ DeleteBySession("s1")

AccessSpec == Init /\ [][AccessNext]_vars

----------------------------------------------------------------------------
(* The record store and its file: saving, closing, reopening, crashing *)

MaxFileIds == 1

FileInputs ==
    { [NoInput EXCEPT !.content = <<"aa">>],
      [NoInput EXCEPT !.content = <<"aa", "bb", "bb">>, !.category = Some("fact"),
                      !.embedding = Some(<<4, -3>>), !.embeddingModel = Some(EmbedderModel),
                      !.sourceType = Some("auto_capture"), !.sourceSession = Some("s1"),
                      !.sourceMessageIndex = Some(0), !.confidence = Some(800),
                      !.tags = Some(<<"t1", "t2">>)] }

FileUpdates == { [NoUpdate EXCEPT !.content = Some(<<"bb">>)] }

FileNext ==
    \/ Open
    \/ Save
    \/ SaveWritten
    \/ SaveRenamed
    \/ Close
    \/ Crash
    \/ \E input \in FileInputs : nextId < MaxFileIds /\ CreateMemory(input)
    \/ \E id \in 1..(MaxFileIds + 1) : GetMemory(id)
    \/ \E id \in IdsOf(memories), upd \in FileUpdates : UpdateMemory(id, upd)
    \/ \E id \in 1..(MaxFileIds + 1) : DeleteMemory(id)
    \/ DeleteBySession("s1")
    \/ RebuildFtsIndex

FileSpec == Init /\ [][FileNext]_vars

\* What open() may find at dbPath when the store is constructed.
\* Rows of a database file written before this run: rowid 1 is gone.
PriorRows ==
    (2 :> NewRow([NoInput EXCEPT !.content = <<"aa">>, !.sourceSession = Some("s1")], 8, 0))
    @@ (3 :> NewRow([NoInput EXCEPT !.content = <<"bb">>], 9, 0))

\* Database files whose keyword index is in step with the rows, lacks an
\* entry, holds a stale text, holds the entry of a row that is gone, or is empty.
PriorFiles ==
    { Export(PriorRows, f) :
        f \in { FtsRebuilt(PriorRows),
                2 :> <<"aa">>,
                (2 :> <<"aa">>) @@ (3 :> <<"aa">>),
                (1 :> <<"cc">>) @@ (2 :> <<"aa">>) @@ (3 :> <<"bb">>),
                NoRows } }

PriorInit ==
    /\ InitExceptFile
    /\ file \in PriorFiles
    /\ captureConfig = DEFAULT_CAPTURE_CONFIG

\* The record store opened on such a file, used, and rebuilt.
RebuildNext ==
    \/ Open
    \/ SaveWritten
    \/ SaveRenamed
    \/ \E id \in IdsOf(memories), upd \in StoreUpdates : UpdateMemory(id, upd)
    \/ \E id \in IdsOf(memories) : DeleteMemory(id)
    \/ \E s \in Sessions : DeleteBySession(s)
    \/ RebuildFtsIndex

RebuildSpec == PriorInit /\ [][RebuildNext]_vars

ExistingFiles == {NoFile, EmptyFile, Torn}

OpenInit ==
    /\ InitExceptFile
    /\ file \in ExistingFiles
    /\ captureConfig = DEFAULT_CAPTURE_CONFIG

OpenSpec == OpenInit /\ [][FileNext]_vars

----------------------------------------------------------------------------
(* HybridSearcher.search over the record store *)

\* search() up to its await: keywordSearchInternal has run to the end,
\* vectorSearch waits for embedder.embed(query).
SearchStart(query, options) ==
    /\ Idle /\ isOpen
    /\ srch.pc = "idle"
    /\ srch' = [ pc |-> IF options.vectorSearch THEN "embedding" ELSE "merging",
                 query |-> query,
                 options |-> options,
                 vectorResults |-> <<>>,
                 keywordResults |->
                     IF options.keywordSearch
                     THEN keywordSearchInternal(memories, fts, query,
                              options.maxResults * options.candidateMultiplier)
                     ELSE <<>> ]
    /\ UNCHANGED <<isOpen, memories, fts, dirty, file, tmpFile, savePc, saveThen,
                   nextId, now, ret, orig, reopened, saved, tasks, captureConfig, others, manager, dedups>>

\* embed(query) settles: vectorSearch scores the embeddings stored now, or
\* gives no candidates when the embedder threw.
SearchEmbedded(ok) ==
    /\ Idle /\ isOpen
    /\ srch.pc = "embedding"
    /\ srch' = [srch EXCEPT
                  !.pc = "merging",
                  !.vectorResults =
                      IF ok
                      THEN vectorScores(memories, HashToVector(srch.query),
                               srch.options.maxResults * srch.options.candidateMultiplier)
                      ELSE <<>>]
    /\ UNCHANGED <<isOpen, memories, fts, dirty, file, tmpFile, savePc, saveThen,
                   nextId, now, ret, orig, reopened, saved, tasks, captureConfig, others, manager, dedups>>

SearchFinishTouching ==
    /\ Idle /\ isOpen
    /\ srch.pc = "merging"
    /\ LET merged  == mergeResults(srch.vectorResults, srch.keywordResults, srch.options)
           results == searchResults(memories, merged, srch.options)
           ids     == {results[i].memory.id : i \in 1..Len(results)}
       IN  /\ ret' = Ret("search", 0, TRUE,
                         [ results |-> results, query |-> srch.query,
                           options |-> srch.options,
                           vectorResults |-> srch.vectorResults,
                           keywordResults |-> srch.keywordResults ],
                         Len(results))
           /\ memories' = [r \in DOMAIN memories |->
                              IF memories[r].id \in ids
                              THEN [memories[r] EXCEPT !.accessCount = @ + 1]
                              ELSE memories[r]]
           /\ dirty' = (dirty \/ ids # {})
    /\ srch' = SearchIdle
    /\ UNCHANGED <<isOpen, fts, file, tmpFile, savePc, saveThen,
                   nextId, now, orig, reopened, saved, tasks, captureConfig, others, manager, dedups>>

\* Promise.all has settled: merge, threshold, cut, hydrate, return.
SearchFinish ==
    /\ Idle /\ isOpen
    /\ srch.pc = "merging"
    /\ LET merged  == mergeResults(srch.vectorResults, srch.keywordResults, srch.options)
           results == searchResults(memories, merged, srch.options)
       IN  ret' = Ret("search", 0, TRUE,
                      [ results |-> results, query |-> srch.query, options |-> srch.options,
                        vectorResults |-> srch.vectorResults,
                        keywordResults |-> srch.keywordResults ],
                      Len(results))
    /\ srch' = SearchIdle
    /\ UNCHANGED <<isOpen, memories, fts, dirty, file, tmpFile, savePc, saveThen,
                   nextId, now, orig, reopened, saved, tasks, captureConfig, others, manager, dedups>>

\* listMemories(opts)
ListMemories(category, sourceSession) ==
    /\ Idle /\ isOpen
    /\ LET found == listMemories(memories, category, sourceSession)
       IN  ret' = Ret("list", 0, TRUE, found, Cardinality(found))
    /\ UNCHANGED <<isOpen, memories, fts, dirty, file, tmpFile, savePc, saveThen,
                   nextId, now, orig, reopened, saved, srch, tasks, captureConfig, others, manager,
                   dedups>>

\* getAllEmbeddings()
GetAllEmbeddings ==
    /\ Idle /\ isOpen
    /\ ret' = Ret("getAllEmbeddings", 0, TRUE, getAllEmbeddings(memories),
                  Len(getAllEmbeddings(memories)))
    /\ UNCHANGED <<isOpen, memories, fts, dirty, file, tmpFile, savePc, saveThen,
                   nextId, now, orig, reopened, saved, srch, tasks, captureConfig, others, manager,
                   dedups>>

\* recall.ts DEFAULT_RECALL_CONFIG, as the options recall() hands to search.
RecallOptions ==
    [DEFAULT_OPTIONS EXCEPT !.maxResults = 5, !.minScore = 300,
                            !.vectorWeight = 700, !.keywordWeight = 300]

\* recall(userMessage) up to its await of searcher.search.
RecallStart(userMessage) == SearchStart(userMessage, RecallOptions)

\* The rows the searches run over.
SearchInputs ==
    { [NoInput EXCEPT !.content = <<"aa">>],
      [NoInput EXCEPT !.content = <<"aa", "bb", "bb">>, !.embedding = Some(<<4, 3>>),
                      !.embeddingModel = Some(EmbedderModel)],
      [NoInput EXCEPT !.content = <<"bb">>, !.embedding = Some(<<0, 5>>),
                      !.embeddingModel = Some(EmbedderModel)] }

SearchQueries == { <<"aa">>, <<"aa", "bb">> }

SearchOptions ==
    { DEFAULT_OPTIONS,
      [DEFAULT_OPTIONS EXCEPT !.minScore = 0, !.vectorWeight = 1000, !.keywordWeight = 1000],
      [DEFAULT_OPTIONS EXCEPT !.minScore = 0, !.vectorSearch = FALSE],
      [DEFAULT_OPTIONS EXCEPT !.minScore = 0, !.keywordSearch = FALSE],
      [DEFAULT_OPTIONS EXCEPT !.minScore = 0, !.maxResults = 1, !.candidateMultiplier = 1] }

SearchNext ==
    \/ Open
    \/ SaveWritten
    \/ SaveRenamed
    \/ \E input \in SearchInputs : CreateMemory(input)
    \/ \E id \in IdsOf(memories) : DeleteMemory(id)
    \/ \E query \in SearchQueries, options \in SearchOptions : SearchStart(query, options)
    \/ \E ok \in BOOLEAN : SearchEmbedded(ok)
    \/ SearchFinish

SearchSpec == Init /\ [][SearchNext]_vars

\* The operations that only read, between the ones that write.
ReadNext ==
    \/ Open
    \/ Save
    \/ SaveWritten
    \/ SaveRenamed
    \/ \E input \in SearchInputs : CreateMemory(input)
    \/ SearchStart(<<"aa">>, [DEFAULT_OPTIONS EXCEPT !.minScore = 0])
    \/ RecallStart(<<"aa", "bb">>)
    \/ \E ok \in BOOLEAN : SearchEmbedded(ok)
    \/ SearchFinish
    \/ \E category \in {None, Some("fact")} : ListMemories(category, None)
    \/ ListMemories(None, Some("s1"))
    \/ \E category \in {None, Some("fact")} : CountMemories(category)
    \/ GetAllEmbeddings

ReadSpec == Init /\ [][ReadNext]_vars

----------------------------------------------------------------------------
(* capture.ts: MemoryCapture *)

\* validateCategory: anything outside the six categories becomes "other".
validateCategory(cat) == IF cat \in MEMORY_CATEGORIES THEN cat ELSE "other"

\* One item of the parsed array -> ExtractedMemory.  An absent field is
\* undefined; String(item.category || "other"), Number(item.confidence) || 0.6.
ExtractedMemory(item) ==
    [ content |-> item.content[1],
      category |-> validateCategory(OrElse(item.category, "other")),
      confidence |-> IF OrElse(item.confidence, 0) = 0 THEN 600 ELSE item.confidence[1],
      tags |-> OrElse(item.tags, <<>>) ]

parseExtractionLenient(response) ==
    LET kept == SelectSeq(response.items, LAMBDA item : IsSome(item.content))
    IN  [i \in 1..Len(kept) |-> ExtractedMemory(kept[i])]

\* parseExtractionResponse: no array in the text gives nothing; items whose
\* content is not a string are dropped.
parseExtractionResponse(response) ==
    IF response.kind # "array" THEN <<>>
    ELSE LET kept == SelectSeq(response.items, LAMBDA item : IsSome(item.content))
         IN  [i \in 1..Len(kept) |-> ExtractedMemory(kept[i])]

\* The filter of captureFromConversation: confidence, category, maxPerTurn.
FilterExtracted(extracted, config) ==
    LET confident == SelectSeq(extracted, LAMBDA m : m.confidence >= config.minConfidence)
        allowed   == SelectSeq(confident, LAMBDA m : m.category \in config.categories)
    IN  Slice(allowed, config.maxPerTurn)

\* (mutant) a duplicate only above the threshold.
IsDuplicateStrict(mem, embedding, threshold) ==
    \E i \in 1..Len(getAllEmbeddings(mem)) :
        /\ ~DimensionMismatch(embedding, getAllEmbeddings(mem)[i].embedding)
        /\ NormalizedSim(cosineSimilarity(embedding, getAllEmbeddings(mem)[i].embedding))
              > threshold

\* The duplicate scan of storeWithDeduplication: some stored embedding of the
\* same length is at or above the threshold; other lengths are skipped.
IsDuplicate(mem, embedding, threshold) ==
    \E i \in 1..Len(getAllEmbeddings(mem)) :
        /\ ~DimensionMismatch(embedding, getAllEmbeddings(mem)[i].embedding)
        /\ NormalizedSim(cosineSimilarity(embedding, getAllEmbeddings(mem)[i].embedding))
              >= threshold

CaptureInputEmbedded(memory, sessionId, embedded) ==
    [NoInput EXCEPT
        !.content = memory.content,
        !.category = Some(memory.category),
        !.embedding = Some(HashToVector(memory.content)),
        !.embeddingModel = Some(EmbedderModel),
        !.confidence = Some(memory.confidence),
        !.tags = Some(memory.tags),
        !.sourceType = Some("auto_capture"),
        !.sourceSession = Some(sessionId)]

\* The CreateMemoryInput storeWithDeduplication builds.
CaptureInput(memory, sessionId, embedded) ==
    [NoInput EXCEPT
        !.content = memory.content,
        !.category = Some(memory.category),
        !.embedding = IF embedded THEN Some(HashToVector(memory.content)) ELSE None,
        !.embeddingModel = IF embedded THEN Some(EmbedderModel) ELSE None,
        !.confidence = Some(memory.confidence),
        !.tags = Some(memory.tags),
        !.sourceType = Some("auto_capture"),
        !.sourceSession = Some(sessionId)]

----------------------------------------------------------------------------
(* manager.ts: MemoryManager *)

Free(t) == tasks[t].pc = "idle"

\* db.save() on a dirty store: the temporary file starts to be written.
SaveBegins ==
    /\ tmpFile' = Torn
    /\ savePc' = "writing"
    /\ saveThen' = "none"

\* db.createMemory(input) inside a manager or capture call.
Created(input, id) ==
    /\ memories' = MemAfterCreate(memories, input, id, now)
    /\ fts' = FtsAfterCreate(fts, memories, input)
    /\ nextId' = id
    /\ orig' = orig @@ (id :> input)
    /\ dirty' = TRUE

\* db.updateMemory(id, upd) inside a manager call.
Updated(id, upd) ==
    /\ memories' = MemAfterUpdate(memories, id, upd, now)
    /\ fts' = FtsAfterUpdate(fts, memories, id, upd)
    /\ orig' = Without(orig, id)
    /\ dirty' = TRUE

\* What store() and update() returned: the content they were given and whether
\* the embedder threw on the way.
Outcome(content, embedFailed) == [content |-> content, embedFailed |-> embedFailed]

\* store(input) with an embedding supplied: createMemory and save(), no await.
StoreWithEmbedding(input) ==
    /\ Idle /\ manager.initialized /\ isOpen
    /\ IsSome(input.embedding)
    /\ nextId < MaxIds
    /\ Created(input, nextId + 1)
    /\ SaveBegins
    /\ ret' = Ret("store", nextId + 1, TRUE, Outcome(input.content, FALSE), 0)
    /\ UNCHANGED <<isOpen, file, now, reopened, saved, callers>>
    /\ dedups' = <<>>

\* store(input) without an embedding: up to await embedder.embed(content).
StoreStart(t, input) ==
    /\ Idle /\ manager.initialized
    /\ Free(t)
    /\ ~IsSome(input.embedding)
    /\ tasks' = [tasks EXCEPT ![t] = [TaskIdle EXCEPT !.pc = "embed", !.kind = "store",
                                                       !.input = input]]
    /\ UNCHANGED <<isOpen, memories, fts, dirty, file, tmpFile, savePc, saveThen, nextId,
                   now, ret, orig, reopened, saved, srch, captureConfig, others, manager, dedups>>

\* embed settles: with the vector, or (it threw) with the input as it was;
\* then createMemory and save().
StoreFinish(t, ok) ==
    /\ Idle /\ isOpen
    /\ tasks[t].pc = "embed" /\ tasks[t].kind = "store"
    /\ nextId < MaxIds
    /\ LET given == tasks[t].input
           input == IF ok
                    THEN [given EXCEPT !.embedding = Some(HashToVector(given.content)),
                                       !.embeddingModel = Some(EmbedderModel)]
                    ELSE given
       IN  /\ Created(input, nextId + 1)
           /\ ret' = Ret("store", nextId + 1, TRUE, Outcome(given.content, ~ok), 0)
    /\ SaveBegins
    /\ tasks' = [tasks EXCEPT ![t] = TaskIdle]
    /\ dedups' = <<>>
    /\ UNCHANGED <<isOpen, file, now, reopened, saved, srch, captureConfig, others, manager>>

\* "input.content && !input.embedding": a non-empty new content, no embedding given.
NeedsEmbedding(upd) ==
    /\ IsSome(upd.content) /\ upd.content[1] # <<>>
    /\ ~IsSome(upd.embedding)

\* The end of update(): updateMemory, and save() when it returned true.
UpdateApplied(id, upd, embedFailed) ==
    /\ IF NoSets(upd)
       THEN /\ ret' = Ret("managerUpdate", id, FALSE, Outcome(<<>>, embedFailed), 0)
            /\ UNCHANGED <<memories, fts, orig, dirty, tmpFile, savePc, saveThen>>
       ELSE /\ Updated(id, upd)
            /\ SaveBegins
            /\ ret' = Ret("managerUpdate", id, TRUE,
                          Outcome(OrElse(upd.content, <<>>), embedFailed), 0)

\* update(id, input) that does not embed: updateMemory and save(), no await.
UpdateNow(id, upd) ==
    /\ Idle /\ manager.initialized /\ isOpen
    /\ ~NeedsEmbedding(upd)
    /\ UpdateApplied(id, upd, FALSE)
    /\ UNCHANGED <<isOpen, file, nextId, now, reopened, saved, callers>>
    /\ dedups' = <<>>

\* update(id, input) with new content: up to await embedder.embed(content).
UpdateStart(t, id, upd) ==
    /\ Idle /\ manager.initialized
    /\ Free(t)
    /\ NeedsEmbedding(upd)
    /\ tasks' = [tasks EXCEPT ![t] = [TaskIdle EXCEPT !.pc = "embed", !.kind = "update",
                                                       !.id = id, !.upd = upd]]
    /\ UNCHANGED <<isOpen, memories, fts, dirty, file, tmpFile, savePc, saveThen, nextId,
                   now, ret, orig, reopened, saved, srch, captureConfig, others, manager, dedups>>

\* embed settles: the update carries the new vector, or (it threw) only what
\* the caller gave.
UpdateFinish(t, ok) ==
    /\ Idle /\ isOpen
    /\ tasks[t].pc = "embed" /\ tasks[t].kind = "update"
    /\ LET given == tasks[t].upd
           upd   == IF ok
                    THEN [given EXCEPT !.embedding = Some(HashToVector(given.content[1])),
                                       !.embeddingModel = Some(EmbedderModel)]
                    ELSE given
       IN  UpdateApplied(tasks[t].id, upd, ~ok)
    /\ tasks' = [tasks EXCEPT ![t] = TaskIdle]
    /\ dedups' = <<>>
    /\ UNCHANGED <<isOpen, file, nextId, now, reopened, saved, srch, captureConfig, others, manager>>

\* delete(id): deleteMemory, and save() when a row went.
ManagerDelete(id) ==
    /\ Idle /\ manager.initialized /\ isOpen
    /\ IF RowidsOf(memories, id) = {}
       THEN /\ ret' = Ret("managerDelete", id, FALSE, None, 0)
            /\ UNCHANGED <<memories, fts, dirty, orig, tmpFile, savePc, saveThen>>
       ELSE /\ fts' = FtsAfterDelete(fts, memories, id)
            /\ memories' = MemAfterDelete(memories, id)
            /\ dirty' = TRUE
            /\ orig' = Without(orig, id)
            /\ SaveBegins
            /\ ret' = Ret("managerDelete", id, TRUE, None, 0)
    /\ UNCHANGED <<isOpen, file, nextId, now, reopened, saved, callers>>
    /\ dedups' = <<>>

\* What captureFromConversation returned, and what extractFn had answered.
Captured(ids, answered) == [ids |-> ids, answered |-> answered]

\* captureFromConversation up to await extractFn(prompt); nothing happens when
\* capture is disabled.
CaptureStart(t, sessionId, response) ==
    /\ Idle /\ manager.initialized
    /\ Free(t)
    /\ IF captureConfig.enabled
       THEN /\ tasks' = [tasks EXCEPT ![t] = [TaskIdle EXCEPT !.pc = "extract",
                             !.kind = "capture", !.session = sessionId,
                             !.response = response]]
            /\ UNCHANGED ret
       ELSE /\ ret' = Ret("capture", 0, TRUE, Captured(<<>>, "unasked"), 0)
            /\ UNCHANGED tasks
    /\ UNCHANGED <<isOpen, memories, fts, dirty, file, tmpFile, savePc, saveThen, nextId,
                   now, orig, reopened, saved, srch, captureConfig, others, manager, dedups>>

\* extractFn settles: it threw, or its text is parsed and filtered; with
\* nothing left the call returns [], else the first candidate is embedded.
CaptureExtracted(t) ==
    /\ Idle
    /\ tasks[t].pc = "extract"
    /\ LET filtered == FilterExtracted(parseExtractionResponse(tasks[t].response),
                                       captureConfig)
       IN  IF tasks[t].response.kind = "throws" \/ filtered = <<>>
           THEN /\ tasks' = [tasks EXCEPT ![t] = TaskIdle]
                /\ ret' = Ret("capture", 0, TRUE,
                              Captured(<<>>, tasks[t].response.kind), 0)
           ELSE /\ tasks' = [tasks EXCEPT ![t].pc = "embed", ![t].queue = filtered]
                /\ UNCHANGED ret
    /\ UNCHANGED <<isOpen, memories, fts, dirty, file, tmpFile, savePc, saveThen, nextId,
                   now, orig, reopened, saved, srch, captureConfig, others, manager, dedups>>

\* The remapped similarities of a vector to the stored embeddings of its length.
Similarities(mem, embedding) ==
    { NormalizedSim(cosineSimilarity(embedding, getAllEmbeddings(mem)[i].embedding)) :
        i \in { k \in 1..Len(getAllEmbeddings(mem)) :
                  ~DimensionMismatch(embedding, getAllEmbeddings(mem)[k].embedding) } }

\* The history entry of one storeWithDeduplication call: the candidate, whether
\* embed gave a vector, the id returned (or none), what the candidate's vector
\* scored against the stored ones, and the row count before the call.
Dedup(memory, embedded, id, mem) ==
    [content |-> memory.content, embedded |-> embedded, id |-> id,
     similarities |-> Similarities(mem, HashToVector(memory.content)),
     countBefore |-> Cardinality(DOMAIN mem)]

LastTwo(s) == IF Len(s) <= 2 THEN s ELSE SubSeq(s, Len(s) - 1, Len(s))

\* storeWithDeduplication after its embed settled: without a vector the
\* candidate is stored as it is; with one it is stored unless the scan finds a
\* duplicate.  Then the loop goes on to the next candidate or ends.
CaptureStored(t, ok) ==
    /\ Idle /\ isOpen
    /\ tasks[t].pc = "embed" /\ tasks[t].kind = "capture"
    /\ LET memory == Head(tasks[t].queue)
           rest   == Tail(tasks[t].queue)
           dup    == ok /\ IsDuplicate(memories, HashToVector(memory.content),
                                       captureConfig.deduplicationThreshold)
           id     == nextId + 1
       IN  /\ IF dup
              THEN /\ UNCHANGED <<memories, fts, nextId, orig, dirty>>
                   /\ ret' = Ret("dedup", 0, FALSE, None, 0)
              ELSE /\ nextId < MaxIds
                   /\ Created(CaptureInput(memory, tasks[t].session, ok), id)
                   /\ ret' = Ret("dedup", id, TRUE, None, 0)
           /\ dedups' = LastTwo(Append(dedups,
                            Dedup(memory, ok, IF dup THEN None ELSE Some(id), memories)))
           /\ tasks' = [tasks EXCEPT
                          ![t].queue = rest,
                          ![t].storedIds = IF dup THEN @ ELSE Append(@, id),
                          ![t].pc = IF rest = <<>> THEN "return" ELSE "embed"]
    /\ UNCHANGED <<isOpen, file, tmpFile, savePc, saveThen, now, reopened, saved, srch,
                   captureConfig, others, manager>>

\* The loop is over: MemoryManager.captureFromConversation saves when an id
\* came back, and returns the ids.
CaptureReturn(t) ==
    /\ Idle
    /\ tasks[t].pc = "return"
    /\ IF tasks[t].storedIds # <<>> /\ dirty
       THEN SaveBegins
       ELSE UNCHANGED <<tmpFile, savePc, saveThen>>
    /\ ret' = Ret("capture", 0, TRUE,
                  Captured(tasks[t].storedIds, tasks[t].response.kind),
                  Len(tasks[t].storedIds))
    /\ tasks' = [tasks EXCEPT ![t] = TaskIdle]
    /\ UNCHANGED <<isOpen, memories, fts, dirty, file, nextId, now, orig, reopened, saved,
                   srch, captureConfig, others, manager, dedups>>

\* requireInitialized() in a manager that is not initialized.
RequireInitializedThrows ==
    /\ Idle /\ ~manager.initialized
    /\ ret.op # "managerThrow"
    /\ ret' = Ret("managerThrow", 0, FALSE, None, 0)
    /\ UNCHANGED <<isOpen, memories, fts, dirty, file, tmpFile, savePc, saveThen,
                   nextId, now, orig, reopened, saved, srch, tasks, captureConfig, others,
                   manager, dedups>>

\* initialize(): db.open(), up to await embedder.initialize().
Initialize ==
    /\ Idle /\ ~isOpen
    /\ manager = ManagerDown
    /\ Opened
    /\ manager' = IF NotADatabase(file) THEN manager
                  ELSE [manager EXCEPT !.pc = "initializing"]
    /\ dedups' = <<>>
    /\ UNCHANGED <<srch, tasks, captureConfig, others>>

\* embedder.initialize() settles: the components are wired, initialized = true.
InitializeDone ==
    /\ Idle
    /\ manager.pc = "initializing"
    /\ manager' = [initialized |-> TRUE, pc |-> "idle"]
    /\ UNCHANGED <<isOpen, memories, fts, dirty, file, tmpFile, savePc, saveThen,
                   nextId, now, ret, orig, reopened, saved, srch, tasks, captureConfig, others,
                   dedups>>

\* shutdown(): returns at once when not initialized; else db.close(), up to
\* await embedder.dispose(), the flag still set.
Shutdown ==
    /\ Idle
    /\ manager.pc = "idle"
    /\ IF manager.initialized
       THEN /\ Closed
            /\ manager' = [manager EXCEPT !.pc = "disposing"]
            /\ dedups' = <<>>
            /\ UNCHANGED ret
       ELSE /\ ret' = Ret("shutdown", 0, TRUE, None, 0)
            /\ UNCHANGED <<isOpen, memories, fts, dirty, file, tmpFile, savePc,
                           saveThen, nextId, now, orig, reopened, saved, manager,
                           dedups>>
    /\ UNCHANGED <<srch, tasks, captureConfig, others>>

\* embedder.dispose() settles: initialized = false.
ShutdownDone ==
    /\ Idle
    /\ manager.pc = "disposing"
    /\ manager' = ManagerDown
    /\ ret' = Ret("shutdown", 0, TRUE, None, 0)
    /\ UNCHANGED <<isOpen, memories, fts, dirty, file, tmpFile, savePc, saveThen,
                   nextId, now, orig, reopened, saved, srch, tasks, captureConfig, others,
                   dedups>>

\* A store(), update() or capture call comes back from embed to a store that
\* was closed meanwhile: createMemory, updateMemory or getAllEmbeddings throws.
TaskThrows(t) ==
    /\ Idle /\ ~isOpen
    /\ tasks[t].pc = "embed"
    /\ tasks' = [tasks EXCEPT ![t] = TaskIdle]
    /\ ret' = Ret("throw", 0, FALSE, None, 0)
    /\ UNCHANGED <<isOpen, memories, fts, dirty, file, tmpFile, savePc, saveThen,
                   nextId, now, orig, reopened, saved, srch, captureConfig, others, manager,
                   dedups>>

\* getMemoriesByIds(ids): [] for no ids, before the store is looked at.
GetMemoriesByIds(ids) ==
    /\ Idle
    /\ ret' = IF ids = {}
              THEN Ret("getMemoriesByIds", 0, TRUE, {}, 0)
              ELSE IF ~isOpen
                   THEN Ret("throw", 0, FALSE, None, 0)
                   ELSE Ret("getMemoriesByIds", 0, TRUE, getMemoriesByIds(memories, ids),
                            Cardinality(getMemoriesByIds(memories, ids)))
    /\ UNCHANGED <<isOpen, memories, fts, dirty, file, tmpFile, savePc, saveThen,
                   nextId, now, orig, reopened, saved, srch, tasks, captureConfig, others,
                   manager, dedups>>

\* What callers hand to MemoryManager.store: a text to embed, or a text with
\* an embedding of their own (of another length than the provider's).
ManagerInputs ==
    { [NoInput EXCEPT !.content = <<"aa">>],
      [NoInput EXCEPT !.content = <<"cc">>, !.embedding = Some(<<5>>),
                      !.embeddingModel = Some("other-model")] }

\* What callers hand to MemoryManager.update.
ManagerUpdates ==
    { NoUpdate,
      [NoUpdate EXCEPT !.content = Some(<<"bb">>)],
      [NoUpdate EXCEPT !.content = Some(<<>>)] }

NoItem == [content |-> None, category |-> None, confidence |-> None, tags |-> None]
Item(content, confidence) ==
    [NoItem EXCEPT !.content = Some(content), !.category = Some("fact"),
                   !.confidence = Some(confidence)]

\* What extractFn answers.
CaptureResponses ==
    { [kind |-> "throws", items |-> <<>>],
      NoResponse,
      [kind |-> "malformed", items |-> << Item(<<"aa">>, 900) >>],
      [kind |-> "array", items |-> << Item(<<" ">>, 900), Item(<<" ">>, 900) >>],
      [kind |-> "array", items |-> << Item(<<"aa">>, 900), Item(<<"aa", "bb", "bb">>, 800) >>],
      [kind |-> "array", items |-> << Item(<<"bb">>, 500), NoItem, Item(<<"bb">>, 0) >>] }

CaptureConfigs ==
    { DEFAULT_CAPTURE_CONFIG,
      [DEFAULT_CAPTURE_CONFIG EXCEPT !.deduplicationThreshold = 500],
      [DEFAULT_CAPTURE_CONFIG EXCEPT !.enabled = FALSE] }

\* new MemoryManager({dbPath, capture}) with or without a capture config.
CaptureInit ==
    /\ InitExceptConfig
    /\ captureConfig \in CaptureConfigs

ManagerNext ==
    \/ Initialize
    \/ InitializeDone
    \/ SaveWritten
    \/ SaveRenamed
    \/ \E input \in ManagerInputs : StoreWithEmbedding(input)
    \/ \E t \in Slots, input \in ManagerInputs : StoreStart(t, input)
    \/ \E t \in Slots, ok \in BOOLEAN : StoreFinish(t, ok)
    \/ \E id \in IdsOf(memories), upd \in ManagerUpdates : UpdateNow(id, upd)
    \/ \E t \in Slots, id \in IdsOf(memories), upd \in ManagerUpdates : UpdateStart(t, id, upd)
    \/ \E t \in Slots, ok \in BOOLEAN : UpdateFinish(t, ok)
    \/ \E id \in IdsOf(memories) : ManagerDelete(id)

ManagerSpec == Init /\ [][ManagerNext]_vars

\* Callers that leave the embedding to the manager.
EmbedInputs == { input \in ManagerInputs : ~IsSome(input.embedding) }
EmbedUpdates == { upd \in ManagerUpdates : ~IsSome(upd.embedding) }

\* store and update calls interleaved at their awaits, with an embedding
\* provider that never fails.
EmbedNext ==
    \/ Initialize
    \/ InitializeDone
    \/ SaveWritten
    \/ SaveRenamed
    \/ \E t \in Slots, input \in EmbedInputs : StoreStart(t, input)
    \/ \E t \in Slots : StoreFinish(t, TRUE)
    \/ \E id \in IdsOf(memories), upd \in EmbedUpdates : UpdateNow(id, upd)
    \/ \E t \in Slots, id \in IdsOf(memories), upd \in EmbedUpdates : UpdateStart(t, id, upd)
    \/ \E t \in Slots : UpdateFinish(t, TRUE)

EmbedSpec == Init /\ [][EmbedNext]_vars

\* One captureFromConversation call at a time.
CaptureSlots == {"t1"}

CaptureNext ==
    \/ Initialize
    \/ InitializeDone
    \/ SaveWritten
    \/ SaveRenamed
    \/ \E input \in ManagerInputs : StoreWithEmbedding(input)
    \/ \E id \in IdsOf(memories) : ManagerDelete(id)
    \/ \E t \in CaptureSlots, response \in CaptureResponses : CaptureStart(t, "s1", response)
    \/ \E t \in CaptureSlots : CaptureExtracted(t)
    \/ \E t \in CaptureSlots, ok \in BOOLEAN : CaptureStored(t, ok)
    \/ \E t \in CaptureSlots : CaptureReturn(t)

CaptureSpec == CaptureInit /\ [][CaptureNext]_vars

\* What extractFn answers to each of two calls made on the same exchange: one
\* candidate, the same for both.
RaceResponses ==
    { [kind |-> "array", items |-> << Item(<<"aa">>, 900) >>],
      [kind |-> "array", items |-> << Item(<<" ">>, 900) >>] }

\* Two captureFromConversation calls interleaved at their awaits.
RaceNext ==
    \/ Initialize
    \/ InitializeDone
    \/ SaveWritten
    \/ SaveRenamed
    \/ \E t \in Slots, response \in RaceResponses : CaptureStart(t, "s1", response)
    \/ \E t \in Slots : CaptureExtracted(t)
    \/ \E t \in Slots, ok \in BOOLEAN : CaptureStored(t, ok)
    \/ \E t \in Slots : CaptureReturn(t)

RaceSpec == CaptureInit /\ [][RaceNext]_vars

\* The store and the manager through their whole life: opened, used, closed,
\* and called while they are not ready.
LifecycleNext ==
    \/ Open
    \/ Save
    \/ SaveWritten
    \/ SaveRenamed
    \/ Close
    \/ RequireDbThrows
    \/ \E ids \in SUBSET (1..MaxFileIds) : GetMemoriesByIds(ids)
    \/ \E input \in LifecycleInputs : CreateMemory(input)
    \/ \E id \in IdsOf(memories) : DeleteMemory(id)
    \/ Initialize
    \/ InitializeDone
    \/ Shutdown
    \/ ShutdownDone
    \/ RequireInitializedThrows
    \/ \E t \in CaptureSlots, input \in LifecycleInputs : StoreStart(t, input)
    \/ \E t \in CaptureSlots, ok \in BOOLEAN : StoreFinish(t, ok)
    \/ \E t \in CaptureSlots : TaskThrows(t)

LifecycleSpec == Init /\ [][LifecycleNext]_vars

----------------------------------------------------------------------------
(* MemoryRecaller *)

\* The configs a MemoryRecaller is built with.
RecallConfigs ==
    { DEFAULT_RECALL_CONFIG,
      [DEFAULT_RECALL_CONFIG EXCEPT !.enabled = FALSE],
      [DEFAULT_RECALL_CONFIG EXCEPT !.minScore = 0],
      [DEFAULT_RECALL_CONFIG EXCEPT !.minScore = 0, !.maxRecall = 1] }

\* The SearchOptions recall() builds from its config; search() fills in the
\* default candidateMultiplier.
searchOptions(config) ==
    [DEFAULT_OPTIONS EXCEPT !.maxResults = config.maxRecall, !.minScore = config.minScore,
                            !.vectorWeight = config.vectorWeight,
                            !.keywordWeight = config.keywordWeight,
                            !.vectorSearch = TRUE, !.keywordSearch = TRUE]

\* value.toFixed(digits) of a value held in units of 1/scale: the number of
\* 10^-digits, rounded to the nearest.
toFixed(value, scale, digits) ==
    LET per == scale \div (10 ^ digits)
    IN  (value + per \div 2) \div per

\* One <memory ...> element of the block.
MemoryLine(result, i) ==
    [ index |-> i,
      category |-> result.memory.category,
      confidence |-> toFixed(result.memory.confidence, 1000, 2),
      relevance |-> toFixed(result.score, 1000000, 3),
      match |-> result.matchType,
      tags |-> IF result.memory.tags = <<>> THEN None ELSE Some(result.memory.tags),
      content |-> result.memory.content ]

formatContextBlockReversed(results) ==
    IF results = <<>> THEN <<>>
    ELSE << [count |-> Len(results)] >>
         \o [i \in 1..Len(results) |-> MemoryLine(results[Len(results) + 1 - i], i)]

\* formatContextBlock(memories): "" for no memories, else the opening tag with
\* the count and one element per memory, in the order given.
formatContextBlock(results) ==
    IF results = <<>> THEN <<>>
    ELSE << [count |-> Len(results)] >>
         \o [i \in 1..Len(results) |-> MemoryLine(results[i], i)]

\* What recall returned, and by which way through its code.
Recalled(found, contextBlock, how) ==
    [memories |-> found, contextBlock |-> contextBlock, how |-> how]

\* new MemoryRecaller(searcher, config)
NewRecaller(config) ==
    /\ srch.pc = "idle"
    /\ recallConfig' = config
    /\ UNCHANGED <<isOpen, memories, fts, dirty, file, tmpFile, savePc, saveThen, nextId,
                   now, ret, orig, reopened, saved, srch, tasks, captureConfig, manager,
                   dedups, hooks, exec, channelVars, sessionVars, gatewayVars>>

\* recall(userMessage) up to where it awaits searcher.search: disabled, it
\* returns at once; on a store that is not open the search rejects before its
\* own await and the catch clause returns.
Recall(userMessage) ==
    /\ Idle
    /\ srch.pc = "idle"
    /\ IF ~recallConfig.enabled
       THEN /\ ret' = Ret("recall", 0, TRUE, Recalled(<<>>, <<>>, "disabled"), 0)
            /\ UNCHANGED <<isOpen, memories, fts, dirty, file, tmpFile, savePc, saveThen,
                           nextId, now, orig, reopened, saved, srch, tasks, captureConfig,
                           others, manager, dedups>>
       ELSE IF ~isOpen
       THEN /\ ret' = Ret("recall", 0, TRUE, Recalled(<<>>, <<>>, "search failed"), 0)
            /\ UNCHANGED <<isOpen, memories, fts, dirty, file, tmpFile, savePc, saveThen,
                           nextId, now, orig, reopened, saved, srch, tasks, captureConfig,
                           others, manager, dedups>>
       ELSE SearchStart(userMessage, searchOptions(recallConfig))

\* The store was closed while the search awaited the embedding: the search
\* rejects and the catch clause of recall returns.
RecallSearchFails ==
    /\ Idle /\ ~isOpen
    /\ srch.pc # "idle"
    /\ ret' = Ret("recall", 0, TRUE, Recalled(<<>>, <<>>, "search failed"), 0)
    /\ srch' = SearchIdle
    /\ UNCHANGED <<isOpen, memories, fts, dirty, file, tmpFile, savePc, saveThen,
                   nextId, now, orig, reopened, saved, tasks, captureConfig, others, manager,
                   dedups>>

\* The search resolves: no memories give the empty block, else the block is
\* formatted.
RecallFinish ==
    /\ Idle /\ isOpen
    /\ srch.pc = "merging"
    /\ LET merged  == mergeResults(srch.vectorResults, srch.keywordResults, srch.options)
           results == searchResults(memories, merged, srch.options)
       IN  ret' = IF results = <<>>
                  THEN Ret("recall", 0, TRUE, Recalled(<<>>, <<>>, "nothing"), 0)
                  ELSE Ret("recall", 0, TRUE,
                           Recalled(results, formatContextBlock(results), "found"),
                           Len(results))
    /\ srch' = SearchIdle
    /\ UNCHANGED <<isOpen, memories, fts, dirty, file, tmpFile, savePc, saveThen,
                   nextId, now, orig, reopened, saved, tasks, captureConfig, others, manager,
                   dedups>>

\* The rows recall runs over.
RecallInputs ==
    { [NoInput EXCEPT !.content = <<"aa", "bb", "bb">>, !.embedding = Some(<<4, 3>>),
                      !.embeddingModel = Some(EmbedderModel), !.tags = Some(<<"t1", "t2">>),
                      !.confidence = Some(855)],
      [NoInput EXCEPT !.content = <<"bb">>, !.embedding = Some(<<0, 5>>),
                      !.embeddingModel = Some(EmbedderModel)] }

RecallNext ==
    \/ Open
    \/ Close
    \/ SaveWritten
    \/ SaveRenamed
    \/ \E input \in RecallInputs : CreateMemory(input)
    \/ \E config \in RecallConfigs : NewRecaller(config)
    \/ \E userMessage \in SearchQueries : Recall(userMessage)
    \/ \E ok \in BOOLEAN : SearchEmbedded(ok)
    \/ RecallSearchFails
    \/ RecallFinish

RecallSpec == Init /\ [][RecallNext]_vars

----------------------------------------------------------------------------
(* The gateway's WebSocketHandler and its RateLimiter *)

\* The last reading of the clock.
MaxTime == 3

\* 60_000 ms, and the limiter's maxPerMinute (config rateLimitPerMinute).
oneMinute == 2
rateLimitPerMinute == 2

\* Everything but the gateway.
notGateway ==
    <<isOpen, memories, fts, dirty, file, tmpFile, savePc, saveThen, nextId, now, ret,
      orig, reopened, saved, srch, tasks, captureConfig, manager, dedups, recallConfig,
      sessionVars, hooks, exec, channelVars>>

\* The raw frames a client sends: one that parses, with method "ping", and
\* one parseRequestFrame gives null for.
RawFrames == {"ping", "garbage"}

\* timestamps.filter((t) => t > oneMinuteAgo)
Recent(timestamps, at) == SelectSeq(timestamps, LAMBDA t : t > at - oneMinute)

checkCountingRejected(timestamps, at) ==
    [ok |-> Len(Recent(timestamps, at)) < rateLimitPerMinute,
     timestamps |-> Append(Recent(timestamps, at), at)]

\* RateLimiter.check(): what it returns and the timestamps it leaves.
check(timestamps, at) ==
    LET kept == Recent(timestamps, at)
    IN  IF Len(kept) >= rateLimitPerMinute
        THEN [ok |-> FALSE, timestamps |-> kept]
        ELSE [ok |-> TRUE, timestamps |-> Append(kept, at)]

\* handleMessage(state, raw): the rate limit check, then the parse, then the
\* dispatch by method, which answers a ping with a pong.
HandleMessage(c, raw) ==
    LET checked == check(connections[c].timestamps, wallClock)
        state   == [connections[c] EXCEPT !.timestamps = checked.timestamps]
    IN  /\ connections' =
              [connections EXCEPT ![c] =
                 IF ~checked.ok THEN [state EXCEPT !.sent = "rate_limit"]
                 ELSE IF raw = "garbage"
                 THEN [state EXCEPT !.sent = "parse_error",
                                    !.accepted = Append(@, wallClock)]
                 ELSE [state EXCEPT !.sent = "pong",
                                    !.accepted = Append(@, wallClock)]]
        /\ UNCHANGED <<wallClock, notGateway>>

\* Time passes between two frames.
TimePasses ==
    /\ wallClock < MaxTime
    /\ wallClock' = wallClock + 1
    /\ UNCHANGED <<connections, notGateway>>

GatewayNext ==
    \/ \E c \in Connections, raw \in RawFrames : HandleMessage(c, raw)
    \/ TimePasses

GatewaySpec == Init /\ [][GatewayNext]_vars

----------------------------------------------------------------------------
(* SessionManager over SessionStorage *)

\* The most sessions created, the most messages held by the sessions
\* together, and the cache's capacity.
MaxSessions == 3
MaxMessages == 1
maxCacheSize == 2

\* Everything but the session manager.
notSession ==
    <<isOpen, memories, fts, dirty, file, tmpFile, savePc, saveThen, nextId, now,
      orig, reopened, saved, srch, tasks, captureConfig, manager, dedups, recallConfig,
      hooks, exec, channelVars, gatewayVars>>

\* The one message callers add.
TheMessage == "hello"

CacheIds(ca) == {ca[i].sessionId : i \in 1..Len(ca)}

\* cache.get(sessionId), for an id the cache holds.
CacheGet(ca, id) == (CHOOSE i \in 1..Len(ca) : ca[i].sessionId = id)

\* cacheSet(sessionId, transcript): delete, set (at the end of the Map), and
\* with the size over maxCacheSize delete the first key.
cacheSet(ca, id, messages) ==
    LET set == Append(SelectSeq(ca, LAMBDA e : e.sessionId # id),
                      [sessionId |-> id, messages |-> messages])
    IN  IF Len(set) > maxCacheSize THEN Tail(set) ELSE set

\* The transcript object in the cache is mutated in place.
Mutated(ca, id, messages) ==
    [i \in 1..Len(ca) |-> IF ca[i].sessionId = id
                          THEN [ca[i] EXCEPT !.messages = messages] ELSE ca[i]]

\* getSession(sessionId): the cached transcript, else the one loaded from
\* disk, else null.
getSession(ca, st, id) ==
    IF id \in CacheIds(ca) THEN Some(ca[CacheGet(ca, id)].messages)
    ELSE IF id \in DOMAIN st THEN Some(st[id])
    ELSE None

\* The cache after getSession: a transcript loaded from disk is put in.
CacheAfterGet(ca, st, id) ==
    IF id \notin CacheIds(ca) /\ id \in DOMAIN st THEN cacheSet(ca, id, st[id]) ELSE ca

\* getHistory(sessionId)
getHistory(ca, st, id) == OrElse(getSession(ca, st, id), <<>>)

\* The messages of the sessions there are, counted together.
RECURSIVE MessagesHeld(_, _, _)
MessagesHeld(ca, st, ids) ==
    IF ids = {} THEN 0
    ELSE LET id == CHOOSE x \in ids : TRUE
         IN  Len(getHistory(ca, st, id)) + MessagesHeld(ca, st, ids \ {id})

\* (history) the id becomes the most recently accessed of the ids the cache
\* holds; ca is the cache after the access.
Touched(rec, id, ca) ==
    SelectSeq(Append(SelectSeq(rec, LAMBDA x : x # id), id),
              LAMBDA x : x \in CacheIds(ca))

ReleasedNever(held, id) == held

\* releaseLock(sessionId)
Released(held, id) == held \ {id}

\* createSession(title)
CreateSession ==
    /\ nextSession < MaxSessions
    /\ nextSession' = nextSession + 1
    /\ storage' = storage @@ ((nextSession + 1) :> <<>>)
    /\ cache' = cacheSet(cache, nextSession + 1, <<>>)
    /\ recency' = Touched(recency, nextSession + 1, cache')
    /\ UNCHANGED <<locks, sessionCalls, ret, notSession>>

\* getSession(sessionId) called from outside.
GetSession(id) ==
    /\ cache' = CacheAfterGet(cache, storage, id)
    /\ recency' = IF getSession(cache, storage, id) # None
                  THEN Touched(recency, id, cache') ELSE recency
    /\ UNCHANGED <<storage, locks, nextSession, sessionCalls, ret, notSession>>

\* deleteSession(sessionId)
DeleteSession(id) ==
    /\ cache' = SelectSeq(cache, LAMBDA e : e.sessionId # id)
    /\ storage' = [x \in DOMAIN storage \ {id} |-> storage[x]]
    /\ recency' = SelectSeq(recency, LAMBDA x : x # id)
    /\ UNCHANGED <<locks, nextSession, sessionCalls, ret, notSession>>

\* addMessage or clearSession is called: acquireLock runs up to its first
\* await, or takes the lock at once.
SessionCall(c, op, id) ==
    /\ sessionCalls[c].pc = "idle"
    /\ IF id \in locks
       THEN /\ sessionCalls' = [sessionCalls EXCEPT ![c] =
                                  [CallIdle EXCEPT !.pc = "waiting", !.op = op,
                                                   !.sessionId = id]]
            /\ UNCHANGED locks
       ELSE /\ sessionCalls' = [sessionCalls EXCEPT ![c] =
                                  [CallIdle EXCEPT !.pc = "locked", !.op = op,
                                                   !.sessionId = id]]
            /\ locks' = locks \cup {id}
    /\ UNCHANGED <<storage, cache, nextSession, recency, ret, notSession>>

\* The 10 ms timer of acquireLock fires: the lock is free and taken, or still
\* held, and then the call throws once its timeout has passed.
LockPolled(c, timedOut) ==
    /\ sessionCalls[c].pc = "waiting"
    /\ LET id == sessionCalls[c].sessionId
       IN  IF id \notin locks
           THEN /\ locks' = locks \cup {id}
                /\ sessionCalls' = [sessionCalls EXCEPT ![c].pc = "locked"]
                /\ UNCHANGED ret
           ELSE /\ UNCHANGED locks
                /\ IF timedOut
                   THEN /\ sessionCalls' = [sessionCalls EXCEPT ![c] = CallIdle]
                        /\ ret' = Ret("timeout", id, FALSE, <<>>, 0)
                   ELSE UNCHANGED <<sessionCalls, ret>>
    /\ UNCHANGED <<storage, cache, nextSession, recency, notSession>>

\* What a call returns, for the id it was called with: the transcript of the
\* id given, which is the object the cache holds, or that it threw.
Returned(op, ok, id, messages, asked) == ret' = Ret(op, id, ok, <<>>, asked)

\* The try block of addMessage: the session is fetched, or created when there
\* is none; the message is pushed, the transcript saved and put in the cache.
\* saveSession can throw.
AddMessageTry(id, saveOk) ==
    LET found == getSession(cache, storage, id)
    IN  IF found # None
        THEN LET got      == CacheAfterGet(cache, storage, id)
                 messages == Append(found[1], TheMessage)
             IN  /\ MessagesHeld(cache, storage, DOMAIN storage) < MaxMessages
                 /\ UNCHANGED nextSession
                 /\ IF saveOk
                    THEN /\ storage' = (id :> messages) @@ storage
                         /\ cache' = cacheSet(got, id, messages)
                         /\ Returned("addMessage", TRUE, id, messages, id)
                    ELSE /\ UNCHANGED storage
                         /\ cache' = Mutated(got, id, messages)
                         /\ Returned("throw", FALSE, id, <<>>, id)
                 /\ recency' = Touched(recency, id, cache')
        ELSE LET first   == nextSession + 1
                 second  == nextSession + 2
                 created == cacheSet(cache, first, <<>>)
             IN  /\ nextSession + 2 <= MaxSessions
                 /\ MessagesHeld(cache, storage, DOMAIN storage) < MaxMessages
                 /\ nextSession' = second
                 /\ IF saveOk
                    THEN /\ storage' = storage @@ (first :> <<>>)
                                               @@ (second :> <<TheMessage>>)
                         /\ cache' = cacheSet(created, second, <<TheMessage>>)
                         /\ recency' = Touched(Touched(recency, first, created),
                                                second, cache')
                         /\ Returned("addMessage", TRUE, second, <<TheMessage>>, id)
                    ELSE /\ storage' = storage @@ (first :> <<>>) @@ (second :> <<>>)
                         /\ cache' = created
                         /\ recency' = Touched(recency, first, cache')
                         /\ Returned("throw", FALSE, id, <<>>, id)

\* The try block of clearSession.
ClearSessionTry(id, saveOk) ==
    LET found == getSession(cache, storage, id)
        got   == CacheAfterGet(cache, storage, id)
    IN  /\ UNCHANGED nextSession
        /\ IF found = None
           THEN /\ Returned("clearSession", FALSE, id, <<>>, id)
                /\ UNCHANGED <<storage, cache, recency>>
           ELSE /\ IF saveOk
                   THEN /\ storage' = (id :> <<>>) @@ storage
                        /\ cache' = cacheSet(got, id, <<>>)
                        /\ Returned("clearSession", TRUE, id, <<>>, id)
                   ELSE /\ UNCHANGED storage
                        /\ cache' = Mutated(got, id, <<>>)
                        /\ Returned("throw", FALSE, id, <<>>, id)
                /\ recency' = Touched(recency, id, cache')

\* addMessage resumes holding the lock: the try block runs, and the finally
\* clause releases the lock.
AddMessageBody(c, saveOk) ==
    /\ sessionCalls[c].pc = "locked" /\ sessionCalls[c].op = "addMessage"
    /\ AddMessageTry(sessionCalls[c].sessionId, saveOk)
    /\ locks' = Released(locks, sessionCalls[c].sessionId)
    /\ sessionCalls' = [sessionCalls EXCEPT ![c] = CallIdle]
    /\ UNCHANGED notSession

\* clearSession resumes holding the lock.
ClearSessionBody(c, saveOk) ==
    /\ sessionCalls[c].pc = "locked" /\ sessionCalls[c].op = "clearSession"
    /\ ClearSessionTry(sessionCalls[c].sessionId, saveOk)
    /\ locks' = Released(locks, sessionCalls[c].sessionId)
    /\ sessionCalls' = [sessionCalls EXCEPT ![c] = CallIdle]
    /\ UNCHANGED notSession

\* addMessage(sessionId, message) awaited with nothing else running: the
\* lock is free, taken, and released when the call ends.
AddMessage(id, saveOk) ==
    /\ id \notin locks
    /\ AddMessageTry(id, saveOk)
    /\ locks' = Released(locks \cup {id}, id)
    /\ UNCHANGED <<sessionCalls, notSession>>

\* clearSession(sessionId) awaited with nothing else running.
ClearSession(id, saveOk) ==
    /\ id \notin locks
    /\ ClearSessionTry(id, saveOk)
    /\ locks' = Released(locks \cup {id}, id)
    /\ UNCHANGED <<sessionCalls, notSession>>

\* The ids callers ask for: every id handed out so far, and one never handed out.
KnownIds == 0..nextSession

\* Sessions created, read, deleted and written, one call after the other.
SessionNext ==
    \/ CreateSession
    \/ \E id \in KnownIds : GetSession(id)
    \/ \E id \in KnownIds : DeleteSession(id)
    \/ \E id \in KnownIds, saveOk \in BOOLEAN : AddMessage(id, saveOk)
    \/ \E id \in KnownIds, saveOk \in BOOLEAN : ClearSession(id, saveOk)

SessionSpec == Init /\ [][SessionNext]_vars

\* The ids two concurrent callers ask for: the first session, and one never
\* handed out.
LockIds == KnownIds \cap {0, 1}

\* Two callers of addMessage and clearSession at once.
LockNext ==
    \/ CreateSession
    \/ \E c \in SessionCallers, id \in LockIds :
          SessionCall(c, "addMessage", id) \/ SessionCall(c, "clearSession", id)
    \/ \E c \in SessionCallers, timedOut \in BOOLEAN : LockPolled(c, timedOut)
    \/ \E c \in SessionCallers, saveOk \in BOOLEAN : AddMessageBody(c, saveOk)
    \/ \E c \in SessionCallers, saveOk \in BOOLEAN : ClearSessionBody(c, saveOk)

LockSpec == Init /\ [][LockNext]_vars

----------------------------------------------------------------------------
(* plugin: PluginRegistry hooks, HookRunner.runBeforeToolCall, ToolExecutor.execute *)

\* The most hooks registered.
MaxHooks == 3

\* What plugins register: a priority, the hook's name, and what the handler
\* does when called: returns nothing, returns {block: true}, or throws.
HookRegistrations ==
    { [hookName |-> "before_tool_call", priority |-> 100, does |-> "block"],
      [hookName |-> "before_tool_call", priority |-> 200, does |-> "pass"],
      [hookName |-> "before_tool_call", priority |-> 1,   does |-> "throws"],
      [hookName |-> "after_tool_call",  priority |-> 300, does |-> "pass"] }

getHooksUnsorted(regs, hookName) == SelectSeq(regs, LAMBDA h : h.hookName = hookName)

\* sort((a, b) => b.priority - a.priority): stable, highest first.
RECURSIVE InsertByPriority(_, _)
InsertByPriority(sorted, h) ==
    IF sorted = <<>> THEN <<h>>
    ELSE IF sorted[Len(sorted)].priority >= h.priority THEN Append(sorted, h)
    ELSE Append(InsertByPriority(SubSeq(sorted, 1, Len(sorted) - 1), h),
                sorted[Len(sorted)])

RECURSIVE SortByPriority(_)
SortByPriority(regs) ==
    IF regs = <<>> THEN <<>>
    ELSE InsertByPriority(SortByPriority(SubSeq(regs, 1, Len(regs) - 1)), regs[Len(regs)])

\* getHooks(hookName): the hooks of that name, highest priority first.
getHooks(regs, hookName) ==
    SortByPriority(SelectSeq(regs, LAMBDA h : h.hookName = hookName))

\* Everything but the plugin runtime.
memoryVars ==
    <<isOpen, memories, fts, dirty, file, tmpFile, savePc, saveThen, nextId, now, ret,
      orig, reopened, saved, srch, tasks, captureConfig, manager, dedups, recallConfig,
      sessionVars, gatewayVars>>

\* registerHook(registration)
RegisterHook(reg) ==
    /\ Len(hooks) < MaxHooks
    /\ hooks' = Append(hooks, reg)
    /\ UNCHANGED <<exec, memoryVars, channelVars>>

\* execute(toolName, ...): an unknown tool returns an error at once; else
\* runBeforeToolCall takes the hooks as they are registered now.
ExecuteStart(found) ==
    /\ exec.pc = "idle"
    /\ exec' = IF ~found THEN ExecIdle
               ELSE LET queue == getHooks(hooks, "before_tool_call")
                    IN  [ExecIdle EXCEPT !.pc = IF queue = <<>> THEN "tool" ELSE "hooks",
                                         !.queue = queue]
    /\ UNCHANGED <<hooks, memoryVars, channelVars>>

\* The loop of runBeforeToolCall calls the next handler.
HandlerStart ==
    /\ exec.pc = "hooks"
    /\ Len(exec.ran) = exec.settled
    /\ exec.queue # <<>>
    /\ exec' = [exec EXCEPT !.ran = Append(@, Head(exec.queue)), !.queue = Tail(@)]
    /\ UNCHANGED <<hooks, memoryVars, channelVars>>

\* The awaited handler settles: a block ends runBeforeToolCall and execute
\* returns the blocked result; a throw is logged and the loop goes on; after
\* the last handler execute goes on to the tool.
HandlerSettles ==
    /\ exec.pc = "hooks"
    /\ Len(exec.ran) > exec.settled
    /\ LET hook == exec.ran[Len(exec.ran)]
       IN  exec' = [exec EXCEPT
                      !.settled = @ + 1,
                      !.blocked = (hook.does = "block"),
                      !.pc = IF hook.does = "block" THEN "idle"
                             ELSE IF exec.queue = <<>> THEN "tool" ELSE "hooks"]
    /\ UNCHANGED <<hooks, memoryVars, channelVars>>

\* tool.execute settles (it may have thrown), the after_tool_call hooks and
\* the log follow, execute returns.
ToolSettles ==
    /\ exec.pc = "tool"
    /\ exec' = [exec EXCEPT !.toolRan = TRUE, !.pc = "idle"]
    /\ UNCHANGED <<hooks, memoryVars, channelVars>>

HookNext ==
    \/ \E reg \in HookRegistrations : RegisterHook(reg)
    \/ \E found \in BOOLEAN : ExecuteStart(found)
    \/ HandlerStart
    \/ HandlerSettles
    \/ ToolSettles

HookSpec == Init /\ [][HookNext]_vars

----------------------------------------------------------------------------
(* channel: ChannelRegistry.handleInboundMessage *)

\* Everything but the channel registry.
notChannel == <<memoryVars, hooks, exec>>

\* The messages the adapter delivers; the adapter's allowlist holds "alice".
Allowlist == {"alice"}

InboundMessages ==
    [channel : {"telegram"}, messageId : {"m1", "m2"}, senderId : {"alice", "mallory"}]

\* isAllowed(senderId): an empty allowlist allows everybody.
isAllowed(allowlist, senderId) == allowlist = {} \/ senderId \in allowlist

\* `${message.channel}:${message.messageId}`
msgKey(message) == <<message.channel, ":", message.messageId>>

IsProcessingNever(proc, key) == FALSE

\* this.processing.has(msgKey)
IsProcessing(proc, key) == key \in proc

\* What the message handler settles with: it throws, or returns null, "",
\* a blank text or a text.
Responses ==
    { [kind |-> "throws", text |-> <<>>], [kind |-> "null", text |-> <<>>] }
    \cup [kind : {"text"}, text : {<<>>, <<" ">>, <<"hi">>}]

\* responseText && responseText.trim().length > 0
HasText(response) ==
    /\ response.kind = "text"
    /\ \E i \in 1..Len(response.text) : response.text[i] # " "

\* handleInboundMessage(adapter, message), up to its first await: a message
\* already in flight is dropped; a sender off the allowlist is blocked and
\* without a handler the message is dropped, the finally clause removing the
\* key that was just added; else the handler is called.
HandleInboundMessage(d, message) ==
    /\ inbound[d].pc = "idle"
    /\ IF IsProcessing(processing, msgKey(message))
       THEN /\ inbound' = [inbound EXCEPT ![d] =
                             [InboundIdle EXCEPT !.message = Some(message),
                                                 !.outcome = "dropped"]]
            /\ UNCHANGED processing
       ELSE IF ~isAllowed(Allowlist, message.senderId)
       THEN /\ inbound' = [inbound EXCEPT ![d] =
                             [InboundIdle EXCEPT !.message = Some(message),
                                                 !.outcome = "blocked"]]
            /\ UNCHANGED processing
       ELSE IF ~messageHandler
       THEN /\ inbound' = [inbound EXCEPT ![d] =
                             [InboundIdle EXCEPT !.message = Some(message),
                                                 !.outcome = "no handler"]]
            /\ UNCHANGED processing
       ELSE /\ inbound' = [inbound EXCEPT ![d] =
                             [pc |-> "handler", message |-> Some(message),
                              outcome |-> "none"]]
            /\ processing' = processing \cup {msgKey(message)}
    /\ UNCHANGED <<messageHandler, notChannel>>

\* The awaited message handler settles: a text goes to adapter.send; a throw
\* reaches the catch clause; in every case but the send the finally clause
\* removes the key.
MessageHandlerSettles(d, response) ==
    /\ inbound[d].pc = "handler"
    /\ IF HasText(response)
       THEN /\ inbound' = [inbound EXCEPT ![d].pc = "send"]
            /\ UNCHANGED processing
       ELSE /\ inbound' = [inbound EXCEPT
                             ![d].pc = "idle",
                             ![d].outcome = IF response.kind = "throws" THEN "error"
                                            ELSE "done"]
            /\ processing' = processing \ {msgKey(inbound[d].message[1])}
    /\ UNCHANGED <<messageHandler, notChannel>>

\* The awaited adapter.send settles, resolved or rejected; the finally clause
\* removes the key.
SendSettles(d, ok) ==
    /\ inbound[d].pc = "send"
    /\ inbound' = [inbound EXCEPT ![d].pc = "idle",
                                  ![d].outcome = IF ok THEN "done" ELSE "error"]
    /\ processing' = processing \ {msgKey(inbound[d].message[1])}
    /\ UNCHANGED <<messageHandler, notChannel>>

\* setMessageHandler(handler)
SetMessageHandler ==
    /\ messageHandler' = TRUE
    /\ UNCHANGED <<processing, inbound, notChannel>>

ChannelNext ==
    \/ SetMessageHandler
    \/ \E d \in InboundSlots, message \in InboundMessages : HandleInboundMessage(d, message)
    \/ \E d \in InboundSlots, response \in Responses : MessageHandlerSettles(d, response)
    \/ \E d \in InboundSlots, ok \in BOOLEAN : SendSettles(d, ok)

ChannelSpec == Init /\ [][ChannelNext]_vars

----------------------------------------------------------------------------
(* Properties of the record store *)

\* C1: after any sequence of create, update, delete, deleteBySession and
\* rebuild, the keyword index holds exactly one entry for each stored row, none
\* for an absent row, and each entry's text is that row's current content.
C1_IndexLockstep ==
    /\ DOMAIN fts = DOMAIN memories
    /\ \A r \in DOMAIN memories : fts[r] = memories[r].content

\* An update has rewritten the content of a row and its index entry.
C1_Witness ==
    /\ ret.op = "update" /\ ret.ok
    /\ \E r \in DOMAIN memories :
          /\ memories[r].id = ret.id
          /\ memories[r].content = <<"bb">>
          /\ fts[r] = <<"bb">>

\* C8: at every point during save(), a crash between the temporary write and the
\* rename included, the file at dbPath is the complete previous image or the
\* complete new one: the only step that changes it is the rename, which installs
\* the full export of the database.
C8_AtomicSave ==
    [][file' # file =>
          /\ savePc = "written"
          /\ file'.kind = "db"
          /\ file' = Export(memories, fts)]_vars

\* The process died while the temporary file was half written; the file at
\* dbPath still holds the rows saved before.
C8_Witness ==
    /\ ret.op = "crash"
    /\ tmpFile = Torn
    /\ file.kind = "db"
    /\ file.memories # NoRows

\* C9: whenever the open store's data differs from its file the dirty flag is
\* set, and only a completed save() clears the flag.
C9_DirtyTracksChanges ==
    /\ [](isOpen /\ Export(memories, fts) # file => dirty)
    /\ [][(dirty /\ ~dirty' /\ isOpen') =>
             (savePc = "written" /\ file' = Export(memories, fts))]_vars

\* get() has bumped the access count of a row that the file holds unbumped.
C9_Witness ==
    /\ ret.op = "get" /\ ret.ok
    /\ isOpen /\ dirty
    /\ file.kind = "db"
    /\ \E r \in DOMAIN memories \cap DOMAIN file.memories :
          /\ memories[r].accessCount = file.memories[r].accessCount + 1
          /\ [memories[r] EXCEPT !.accessCount = 0] = [file.memories[r] EXCEPT !.accessCount = 0]

\* The record get() returned carries what createMemory was given.
SameAsCreated(rec, input) ==
    /\ rec.content = input.content
    /\ rec.category = OrElse(input.category, "other")
    /\ rec.tags = OrElse(input.tags, <<>>)
    /\ rec.confidence = OrElse(input.confidence, 1000)
    /\ rec.sourceType = OrElse(input.sourceType, "manual")
    /\ rec.sourceSession = input.sourceSession
    /\ rec.sourceMessageIndex = input.sourceMessageIndex
    /\ rec.embeddingModel = input.embeddingModel
    /\ IsSome(rec.embedding) = IsSome(input.embedding)
    /\ IsSome(rec.embedding) => decodeEmbedding(rec.embedding[1]) = input.embedding[1]

\* C10: after create, save and close, a store opened on the same file returns
\* from get(id) a record with the content, category, tags, confidence,
\* provenance and embedding that were created.
C10_ReopenRoundTrip ==
    (/\ ret.op = "get"
     /\ ret.id \in reopened
     /\ ret.id \in DOMAIN orig
     /\ ret.id \in saved)
    => /\ ret.ok
       /\ IsSome(ret.val)
       /\ SameAsCreated(ret.val[1], orig[ret.id])

\* A record created with an embedding and tags has been read back after a reopen.
C10_Witness ==
    /\ ret.op = "get" /\ ret.ok
    /\ ret.id \in reopened
    /\ ret.id \in DOMAIN orig
    /\ ret.id \in saved
    /\ IsSome(ret.val[1].embedding)
    /\ ret.val[1].tags = <<"t1", "t2">>

----------------------------------------------------------------------------
(* Properties of hybrid search *)

\* search() returned: the result at position i, and where its id came from.
Searched == ret.op = "search"
InVector(r) == r.memory.id \in SeqIds(ret.val.vectorResults)
InKeyword(r) == r.memory.id \in SeqIds(ret.val.keywordResults)
ResultsOf(v) == {v.results[i] : i \in 1..Len(v.results)}

\* C2: a record found by both the vector search and the keyword search appears
\* once in the results, tagged "hybrid", with score vectorWeight x vector score
\* + keywordWeight x normalized keyword score; only such records are "hybrid".
C2_HybridBothSources ==
    Searched =>
        /\ \A i, j \in 1..Len(ret.val.results) :
              ret.val.results[i].memory.id = ret.val.results[j].memory.id => i = j
        /\ \A r \in ResultsOf(ret.val) :
              /\ r.matchType = "hybrid" <=> (InVector(r) /\ InKeyword(r))
              /\ r.matchType = "hybrid" =>
                    r.score = ret.val.options.vectorWeight
                                  * ScoreOf(ret.val.vectorResults, r.memory.id)
                              + ret.val.options.keywordWeight
                                  * ScoreOf(ret.val.keywordResults, r.memory.id)

\* C3 as written: a record found by one source only is tagged with that source
\* and its score is the score that source gave it.
C3_SingleSourceScoreAsWritten ==
    Searched =>
        \A r \in ResultsOf(ret.val) :
            /\ (InVector(r) /\ ~InKeyword(r)) =>
                  /\ r.matchType = "vector"
                  /\ r.score = 1000 * ScoreOf(ret.val.vectorResults, r.memory.id)
            /\ (InKeyword(r) /\ ~InVector(r)) =>
                  /\ r.matchType = "keyword"
                  /\ r.score = 1000 * ScoreOf(ret.val.keywordResults, r.memory.id)

\* C3 (amended): a record found by one source only is tagged with that source
\* and its score is that source's score multiplied by that source's weight.
C3_SingleSourceWeighted ==
    Searched =>
        \A r \in ResultsOf(ret.val) :
            /\ (InVector(r) /\ ~InKeyword(r)) =>
                  /\ r.matchType = "vector"
                  /\ r.score = ret.val.options.vectorWeight
                                   * ScoreOf(ret.val.vectorResults, r.memory.id)
            /\ (InKeyword(r) /\ ~InVector(r)) =>
                  /\ r.matchType = "keyword"
                  /\ r.score = ret.val.options.keywordWeight
                                   * ScoreOf(ret.val.keywordResults, r.memory.id)

\* One search with the default weights returned a record only the vector
\* search found and a record only the keyword search found.
C3_Witness ==
    /\ Searched
    /\ ret.val.options = DEFAULT_OPTIONS
    /\ \E r \in ResultsOf(ret.val) : InVector(r) /\ ~InKeyword(r) /\ r.score = 350000
    /\ \E r \in ResultsOf(ret.val) : InKeyword(r) /\ ~InVector(r) /\ r.score = 300000

\* C4: the score of every returned result lies in [0, 1].
C4_ScoreInUnitInterval ==
    Searched => \A r \in ResultsOf(ret.val) : 0 <= r.score /\ r.score <= 1000000

----------------------------------------------------------------------------
(* Properties of capture and of the manager *)

\* The latest storeWithDeduplication call.
LastDedup == dedups[Len(dedups)]
StoredRows == Cardinality(DOMAIN memories)

\* C5: capturing the same content twice in sequence with a working embedder
\* stores exactly one record: the first capture returns an id, the second
\* returns none and leaves the record count unchanged.
C5_DedupIdempotent ==
    (/\ ret.op = "dedup"
     /\ Len(dedups) = 2
     /\ dedups[1].content = dedups[2].content
     /\ dedups[1].embedded /\ dedups[2].embedded
     /\ IsSome(dedups[1].id))
    => /\ dedups[2].id = None
       /\ StoredRows = dedups[2].countBefore

\* An embedded candidate has just been stored as a new auto_capture record.
StoredAsAutoCapture ==
    /\ StoredRows = LastDedup.countBefore + 1
    /\ \E r \in DOMAIN memories :
          /\ memories[r].id = LastDedup.id[1]
          /\ memories[r].content = LastDedup.content
          /\ memories[r].sourceType = "auto_capture"

\* C6 as written: an embedded candidate is rejected (no id, nothing stored)
\* exactly when some stored embedding has remapped similarity above the
\* threshold, and is otherwise stored as a new auto_capture record.
C6_RejectAboveThreshold ==
    (ret.op = "dedup" /\ LastDedup.embedded) =>
        /\ LastDedup.id = None <=>
              \E sim \in LastDedup.similarities : sim > captureConfig.deduplicationThreshold
        /\ LastDedup.id = None => StoredRows = LastDedup.countBefore
        /\ IsSome(LastDedup.id) => StoredAsAutoCapture

\* C6 (amended): an embedded candidate is rejected (no id, nothing stored)
\* exactly when some stored embedding has remapped similarity at or above the
\* threshold, and is otherwise stored as a new auto_capture record.
C6_RejectAtOrAboveThreshold ==
    (ret.op = "dedup" /\ LastDedup.embedded) =>
        /\ LastDedup.id = None <=>
              \E sim \in LastDedup.similarities : sim >= captureConfig.deduplicationThreshold
        /\ LastDedup.id = None => StoredRows = LastDedup.countBefore
        /\ IsSome(LastDedup.id) => StoredAsAutoCapture

\* A candidate was rejected whose closest stored embedding sits exactly at the
\* threshold.
C6_Witness ==
    /\ ret.op = "dedup" /\ LastDedup.embedded
    /\ LastDedup.id = None
    /\ LastDedup.similarities # {}
    /\ MaxOf(LastDedup.similarities) = captureConfig.deduplicationThreshold

\* C7: when the embedder fails during store, or during an update that changes
\* content, the call still succeeds, and afterwards the record has no
\* embedding and keyword search on its content finds it.
C7_EmbedFailureKeepsKeywordSearch ==
    (/\ ret.op \in {"store", "managerUpdate"}
     /\ ret.val.embedFailed
     /\ RowidsOf(memories, ret.id) # {})
    => /\ ret.ok
       /\ \A r \in RowidsOf(memories, ret.id) :
             /\ memories[r].embedding = None
             /\ ret.id \in SeqIds(keywordSearch(memories, fts, memories[r].content,
                                                Cardinality(DOMAIN memories)))

----------------------------------------------------------------------------
(* Properties of search under concurrent deletes, and of calls on a missing id *)

\* C11: when a record is deleted while search awaits the query embedding, the
\* search still returns, and every record in its results is in the store at
\* hydration time, as the store holds it.
C11_NoAbsentRecordInResults ==
    Searched =>
        /\ ret.ok
        /\ \A r \in ResultsOf(ret.val) :
              \E row \in DOMAIN memories : rowToRecord(memories[row]) = r.memory

\* A search returned results although a record the keyword search had scored
\* was deleted before hydration.
C11_Witness ==
    /\ Searched /\ ret.ok
    /\ ret.val.results # <<>>
    /\ \E id \in SeqIds(ret.val.keywordResults) : id \notin IdsOf(memories)

\* C12: update on an id that is not in the store returns false, whatever
\* fields the update carries.
C12_UpdateMissingReturnsFalse ==
    (ret.op = "update" /\ ret.id \notin IdsOf(memories)) => ~ret.ok

\* A get or delete step whose id is not in the store.
MissingIdCall ==
    /\ ret' # ret
    /\ ret'.op \in {"get", "delete"}
    /\ ret'.id \notin IdsOf(memories)

\* C13: get on a missing id returns null and delete on a missing id returns
\* false, and neither changes any record, any index entry or the dirty flag.
C13_MissingIdNoEffect ==
    [][MissingIdCall =>
          /\ ~ret'.ok /\ ret'.val = None
          /\ UNCHANGED <<memories, fts, dirty>>]_vars

\* delete on an id that was never stored came back false on a clean store
\* that holds another record.
C13_Witness ==
    /\ ret.op = "delete" /\ ~ret.ok
    /\ ret.id \notin IdsOf(memories)
    /\ isOpen /\ ~dirty
    /\ memories # NoRows

\* C14: a Record Store operation called while the store is not open, and a
\* manager operation called while the manager is not initialized, raises and
\* changes neither the store nor its file.
NotReadyCall ==
    /\ ret' # ret
    /\ \/ ~isOpen /\ ret'.op \in {"save", "close", "getMemoriesByIds", "throw"}
       \/ manager = ManagerDown /\ ret'.op \in {"shutdown", "managerThrow"}

C14_NotReadyRaises ==
    [][NotReadyCall =>
          /\ ~ret'.ok
          /\ UNCHANGED <<isOpen, memories, fts, dirty, file, tmpFile>>]_vars

\* C15: open() on an existing file that is not a valid store, a file of
\* zero bytes included, raises and does not leave the store open.
InvalidFile == file.kind \in {"torn", "empty"}

C15_InvalidFileRaises ==
    [][(InvalidFile /\ ~isOpen /\ ret'.op = "open" /\ ret' # ret) =>
          (~ret'.ok /\ ~isOpen')]_vars

\* C16: a successful get(id) adds exactly 1 to the accessCount of the record
\* with that id and leaves every other record's accessCount as it was; no
\* step lowers the accessCount of a record that stays in the store.
GetReturns == ret' # ret /\ ret'.op = "get" /\ ret'.ok

C16_AccessCountByOne ==
    [][/\ \A r \in DOMAIN memories \cap DOMAIN memories' :
             memories'[r].id = memories[r].id =>
                 memories'[r].accessCount >= memories[r].accessCount
       /\ GetReturns =>
             /\ DOMAIN memories' = DOMAIN memories
             /\ \A r \in DOMAIN memories :
                   memories'[r].accessCount =
                       memories[r].accessCount + (IF memories[r].id = ret'.id THEN 1 ELSE 0)
             /\ ret'.val[1].accessCount = MaxOf({memories[r].accessCount :
                                                    r \in RowidsOf(memories, ret'.id)}) + 1]_vars

\* The second get of a record, with another record in the store.
C16_Witness ==
    /\ ret.op = "get" /\ ret.ok
    /\ ret.val[1].accessCount = 2
    /\ \E r \in DOMAIN memories : memories[r].id # ret.id /\ memories[r].accessCount = 0

\* What mergeResults made of the candidates of the search that returned.
Merged == mergeResults(ret.val.vectorResults, ret.val.keywordResults, ret.val.options)

\* C17: search returns its results in non-increasing order of score.
C17_SortedByScore ==
    Searched =>
        \A i \in 1..(Len(ret.val.results) - 1) :
            ret.val.results[i].score >= ret.val.results[i + 1].score

\* Two results of different scores, the better one from the record stored later.
C17_Witness ==
    /\ Searched
    /\ Len(ret.val.results) = 2
    /\ ret.val.results[1].score > ret.val.results[2].score
    /\ ret.val.results[1].memory.id > ret.val.results[2].memory.id

\* C18: every result of search has a score of at least the minScore option
\* of that call.
C18_AtLeastMinScore ==
    Searched =>
        \A r \in ResultsOf(ret.val) : r.score >= ret.val.options.minScore * 1000

\* A stored candidate below a positive minScore was dropped while another passed.
C18_Witness ==
    /\ Searched
    /\ ret.val.options.minScore > 0
    /\ ret.val.results # <<>>
    /\ \E i \in 1..Len(Merged) :
          /\ Merged[i].id \in IdsOf(memories)
          /\ Merged[i].score < ret.val.options.minScore * 1000

\* C19: search never returns more than maxResults results.
C19_AtMostMaxResults ==
    Searched => Len(ret.val.results) <= ret.val.options.maxResults

\* Two stored candidates pass the threshold and maxResults is 1.
C19_Witness ==
    /\ Searched
    /\ ret.val.options.maxResults = 1
    /\ Len(ret.val.results) = 1
    /\ Len(Merged) = 2
    /\ \A i \in 1..Len(Merged) :
          /\ Merged[i].id \in IdsOf(memories)
          /\ Merged[i].score >= ret.val.options.minScore * 1000

\* C20: count(c) is the number of stored records whose category is now c,
\* and count() without a category is the number of stored records.
C20_CountByCategory ==
    ret.op = "count" =>
        /\ ret.ok
        /\ ret.n = IF IsSome(ret.val)
                   THEN Cardinality({r \in DOMAIN memories :
                                        rowToRecord(memories[r]).category = ret.val[1]})
                   ELSE Cardinality(DOMAIN memories)

\* One of two records was moved to "preference" by an update, and is counted alone.
C20_Witness ==
    /\ ret.op = "count" /\ ret.val = Some("preference")
    /\ ret.n = 1
    /\ Cardinality(DOMAIN memories) = 2

\* C21: keywordSearch returns nothing when the query has no token longer
\* than one character, the empty query included.
NoLongToken(query) == \A i \in 1..Len(query) : Len(query[i]) <= 1

C21_ShortQueryFindsNothing ==
    (ret.op = "keywordSearch" /\ NoLongToken(ret.val.query)) =>
        (ret.ok /\ ret.val.results = <<>>)

\* The query "a" came back while every stored record holds the word "a".
C21_Witness ==
    /\ ret.op = "keywordSearch" /\ ret.val.query = <<"a">>
    /\ Cardinality(DOMAIN memories) = 2
    /\ \A r \in DOMAIN fts : \E i \in 1..Len(fts[r]) : fts[r][i] = "a"

\* C22: when extractFn fails, or its answer holds no JSON array that parses,
\* captureFromConversation returns no ids, stores nothing and does not raise.
ExtractionFails(t) ==
    /\ tasks[t].pc = "extract" /\ tasks'[t].pc # "extract"
    /\ tasks[t].response.kind # "array"

C22_ExtractionFailureStoresNothing ==
    [][\A t \in Slots :
          ExtractionFails(t) =>
              /\ ret'.op = "capture" /\ ret'.ok /\ ret'.val.ids = <<>>
              /\ tasks'[t].pc = "idle"
              /\ UNCHANGED <<memories, fts, nextId, dirty>>]_vars

\* A capture whose answer was cut before the closing bracket has returned,
\* with records in the store.
C22_Witness ==
    /\ ret.op = "capture" /\ ret.val.answered = "malformed"
    /\ ret.val.ids = <<>>
    /\ memories # NoRows

\* C23: the confidence of every stored record lies in [0,1], whatever
\* create or update was given.
C23_ConfidenceInUnitInterval ==
    \A r \in DOMAIN memories :
        /\ rowToRecord(memories[r]).confidence >= 0
        /\ rowToRecord(memories[r]).confidence <= 1000

\* C24: every stored record has neither an embedding nor embeddingDims, or
\* an embedding whose length is its embeddingDims.
C24_EmbeddingMatchesDims ==
    \A r \in DOMAIN memories :
        LET rec == rowToRecord(memories[r])
        IN  \/ rec.embedding = None /\ rec.embeddingDims = None
            \/ /\ IsSome(rec.embedding) /\ IsSome(rec.embeddingDims)
               /\ Len(decodeEmbedding(rec.embedding[1])) = rec.embeddingDims[1]

\* An update gave a record an embedding of three numbers, where create gives
\* two or none; another record has none.
C24_Witness ==
    /\ \E r \in DOMAIN memories : memories[r].embeddingDims = Some(3)
    /\ \E r \in DOMAIN memories : memories[r].embedding = None

\* C25: a capture that compares its candidate's vector with a stored
\* embedding of another length raises a dimension-mismatch error.
MismatchMet(t) ==
    /\ tasks[t].pc = "embed" /\ tasks[t].kind = "capture"
    /\ tasks'[t] # tasks[t]
    /\ dedups' # <<>> /\ dedups'[Len(dedups')].embedded
    /\ LET embedding == HashToVector(Head(tasks[t].queue).content)
           stored    == getAllEmbeddings(memories)
       IN  /\ \E i \in 1..Len(stored) : DimensionMismatch(embedding, stored[i].embedding)
           /\ ~IsDuplicate(memories, embedding, captureConfig.deduplicationThreshold)

C25_MismatchRaises ==
    [][\A t \in Slots : MismatchMet(t) => (ret'.op = "throw" /\ ~ret'.ok)]_vars

\* C26: search, recall, list, count and getAllEmbeddings change no record,
\* no entry of the keyword index and not the dirty flag.
ReadStep ==
    \/ srch' # srch
    \/ ret' # ret /\ ret'.op \in {"search", "list", "count", "getAllEmbeddings"}

C26_ReadsChangeNothing ==
    [][ReadStep => UNCHANGED <<memories, fts, dirty>>]_vars

\* A search returned records from a saved store, and they were never accessed.
C26_Witness ==
    /\ Searched /\ ret.val.results # <<>>
    /\ isOpen /\ ~dirty
    /\ \A r \in DOMAIN memories : memories[r].accessCount = 0

\* C27: the before_tool_call handlers of one execute call run one at a time
\* and in descending priority; once one blocks, no further handler runs and
\* the tool is not executed.
C27_HooksInOrderUntilBlocked ==
    /\ Len(exec.ran) - exec.settled \in {0, 1}
    /\ \A i \in 1..Len(exec.ran) : \A j \in i..Len(exec.ran) :
          exec.ran[i].priority >= exec.ran[j].priority
    /\ \A i \in 1..exec.settled :
          exec.ran[i].does = "block" =>
              /\ i = Len(exec.ran)
              /\ exec.pc = "idle" /\ ~exec.toolRan

\* A call was blocked by the second handler to run, which was registered
\* first, and a hook of lower priority was left in the queue.
C27_Witness ==
    /\ exec.blocked /\ exec.pc = "idle"
    /\ Len(exec.ran) = 2 /\ exec.ran[2] = hooks[1]
    /\ exec.queue # <<>>

\* C28: while a message with a given channel and message id is being processed,
\* a further delivery of the same message is dropped without calling the
\* message handler, so no two calls in flight carry the same key; and the key
\* is in the in-flight set exactly while a call for it is in flight, having
\* been removed when the call ended by success, by allowlist block or by error.
InFlight == {d \in InboundSlots : inbound[d].pc # "idle"}

C28_InFlightOncePerMessage ==
    /\ \A d1 \in InFlight, d2 \in InFlight :
          msgKey(inbound[d1].message[1]) = msgKey(inbound[d2].message[1]) => d1 = d2
    /\ processing = {msgKey(inbound[d].message[1]) : d \in InFlight}
    /\ \A d \in InboundSlots :
          inbound[d].outcome \in {"dropped", "blocked", "error", "done"} =>
              inbound[d].pc = "idle"

C28_Witness ==
    /\ inbound["d1"].pc = "handler"
    /\ inbound["d2"].outcome = "dropped"
    /\ inbound["d2"].message = inbound["d1"].message
    /\ inbound["d3"].outcome = "error"
    /\ inbound["d3"].message = inbound["d1"].message

\* C29: with an embedding provider that never fails and callers that supply
\* no embedding, once every store and update call has completed each
\* record's stored embedding is the embedding of its current content.
C29_EmbeddingOfCurrentContent ==
    (\A t \in Slots : tasks[t].pc = "idle") =>
        \A r \in DOMAIN memories :
            memories[r].embedding =
                Some(encodeEmbedding(HashToVector(memories[r].content)))

\* C30: when two captureFromConversation calls carrying the same candidate
\* content interleave at their awaits, at most one of them stores a record
\* (for candidates whose embedding succeeded: a candidate whose embedding
\* failed is stored without the duplicate check).
InterleavedCaptures ==
    /\ tasks["t1"].pc = "return" /\ tasks["t2"].pc = "return"
    /\ tasks["t1"].response = tasks["t2"].response
    /\ Len(dedups) = 2
    /\ dedups[1].embedded /\ dedups[2].embedded

C30_AtMostOneStores ==
    InterleavedCaptures =>
        ~(tasks["t1"].storedIds # <<>> /\ tasks["t2"].storedIds # <<>>)

----------------------------------------------------------------------------
(* Properties of rebuild, deleteBySession, capture and recall *)

\* C31: after rebuildFtsIndex the keyword index holds exactly one entry per
\* stored row, with that row's current content, whatever it held before; no
\* row is changed; and a rebuild that follows a rebuild leaves the index as
\* it is.
C31_RebuildRestoresIndex ==
    [][ret'.op = "rebuild" =>
          /\ DOMAIN fts' = DOMAIN memories'
          /\ \A r \in DOMAIN memories' : fts'[r] = memories'[r].content
          /\ memories' = memories
          /\ ret.op = "rebuild" => fts' = fts]_vars

\* A rebuild has run on a store whose file, as loaded and saved again, holds
\* an index that lacks entries or holds stale or orphaned ones.
C31_Witness ==
    /\ ret.op = "rebuild" /\ Idle
    /\ memories # NoRows
    /\ file.kind = "db" /\ file.memories = memories
    /\ file.fts # fts
    /\ fts = FtsRebuilt(memories)

\* C32: deleteBySession(s) removes exactly the rows whose sourceSession is s,
\* with their index entries, returns how many rows it removed, and leaves
\* every other row and index entry as it was.
C32_DeleteBySessionExact ==
    [][(ret' # ret /\ ret'.op = "deleteBySession") =>
          LET s    == ret'.val[1]
              gone == {r \in DOMAIN memories : memories[r].sourceSession = Some(s)}
          IN  /\ DOMAIN memories' = DOMAIN memories \ gone
              /\ \A r \in DOMAIN memories' : memories'[r] = memories[r]
              /\ DOMAIN fts' = DOMAIN fts \ gone
              /\ \A r \in DOMAIN fts' : fts'[r] = fts[r]
              /\ ret'.n = Cardinality(gone)]_vars

\* deleteBySession removed the row of its session and left a row of no session.
C32_Witness ==
    /\ ret.op = "deleteBySession" /\ ret.val = Some("s1") /\ ret.n = 1
    /\ \E r \in DOMAIN memories : memories[r].sourceSession = None
    /\ DOMAIN fts = DOMAIN memories

\* C33: when embedding a capture candidate fails, the candidate is stored
\* without a duplicate check, as a record with no embedding and sourceType
\* auto_capture, and its id is returned.
C33_EmbedFailureStoresUnchecked ==
    (ret.op = "dedup" /\ ~LastDedup.embedded) =>
        /\ ret.ok /\ LastDedup.id = Some(ret.id)
        /\ StoredRows = LastDedup.countBefore + 1
        /\ \E r \in DOMAIN memories :
              /\ memories[r].id = ret.id
              /\ memories[r].content = LastDedup.content
              /\ memories[r].embedding = None
              /\ memories[r].embeddingDims = None
              /\ memories[r].sourceType = "auto_capture"

\* A candidate whose embedding failed was stored although a stored embedding
\* is at or above the threshold for its content.
C33_Witness ==
    /\ ret.op = "dedup" /\ ~LastDedup.embedded
    /\ IsSome(LastDedup.id)
    /\ \E sim \in LastDedup.similarities : sim >= captureConfig.deduplicationThreshold

\* C34: one captureFromConversation call stores at most maxPerTurn records,
\* and every record it stores comes from a candidate of the answer whose
\* confidence (0.6 when the candidate states none) is at least minConfidence
\* and whose category is in the allowed list.
AdmissibleItem(item, content) ==
    /\ item.content = Some(content)
    /\ item.confidence = None \/ item.confidence[1] >= captureConfig.minConfidence
    /\ validateCategory(OrElse(item.category, "other")) \in captureConfig.categories

C34_CaptureFilter ==
    \A t \in CaptureSlots :
        tasks[t].pc = "return" =>
            /\ Len(tasks[t].storedIds) <= captureConfig.maxPerTurn
            /\ \A k \in 1..Len(tasks[t].storedIds) :
                  \A r \in RowidsOf(memories, tasks[t].storedIds[k]) :
                      \E i \in 1..Len(tasks[t].response.items) :
                          AdmissibleItem(tasks[t].response.items[i], memories[r].content)

\* C35: recall never raises; its context block is empty exactly when it
\* returns no memories, which is the case when recall is disabled, when
\* nothing qualifies and when the search fails; otherwise the block gives the
\* count and lists the returned memories in the order search returned them.
C35_RecallBlockMatchesResults ==
    ret.op = "recall" =>
        LET found == ret.val.memories
            block == ret.val.contextBlock
        IN  /\ ret.ok
            /\ block = <<>> <=> found = <<>>
            /\ ret.val.how \in {"disabled", "nothing", "search failed"} <=> found = <<>>
            /\ found # <<>> =>
                  /\ Len(block) = Len(found) + 1
                  /\ block[1].count = Len(found)
                  /\ \A i \in 1..Len(found) :
                        /\ block[i + 1].index = i
                        /\ block[i + 1].content = found[i].memory.content
                        /\ block[i + 1].category = found[i].memory.category
                        /\ block[i + 1].match = found[i].matchType
                  /\ \A i \in 1..Len(found) : \A j \in i..Len(found) :
                        found[i].score >= found[j].score

\* recall returned two memories of different relevance and a block for them.
C35_Witness ==
    /\ ret.op = "recall"
    /\ Len(ret.val.memories) = 2
    /\ ret.val.memories[1].score > ret.val.memories[2].score
    /\ Len(ret.val.contextBlock) = 3

\* recall returned the empty block because the store was closed under its search.
C35_WitnessFailed ==
    /\ ret.op = "recall" /\ ret.val.how = "search failed"
    /\ ~isOpen /\ file.kind = "db" /\ file.memories # NoRows

----------------------------------------------------------------------------
(* Properties of the session manager *)

\* The step is an addMessage that returned, asked for an id no session has.
AddedToMissing(id) ==
    /\ getSession(cache, storage, id) = None
    /\ AddMessage(id, TRUE)

\* C36: addMessage on a session id that does not exist creates the session:
\* exactly one new session comes into existence, the message is the last
\* message of the returned and persisted session, and getHistory of the
\* requested id returns the message.
C36_AddMessageCreatesSession ==
    [][\A id \in KnownIds :
          AddedToMissing(id) =>
              LET returned == getHistory(cache', storage', ret'.id)
                  history  == getHistory(cache', storage', id)
              IN  /\ Cardinality(DOMAIN storage') = Cardinality(DOMAIN storage) + 1
                  /\ returned # <<>> /\ returned[Len(returned)] = TheMessage
                  /\ ret'.id \in DOMAIN storage'
                  /\ storage'[ret'.id] = returned
                  /\ history # <<>> /\ history[Len(history)] = TheMessage]_vars

\* The callers that hold the lock of a session.
LockHolders(id) ==
    {c \in SessionCallers :
        sessionCalls[c].pc = "locked" /\ sessionCalls[c].sessionId = id}

\* C37: for each session id at most one addMessage or clearSession holds the
\* session's lock at any time, and the lock is held only while an operation
\* holds it: it is free again once the operation has returned or thrown, so
\* the next operation on the session takes it.
C37_OneLockHolderPerSession ==
    \A id \in 0..MaxSessions :
        /\ Cardinality(LockHolders(id)) <= 1
        /\ id \in locks <=> LockHolders(id) # {}

\* An operation threw under the lock; a later operation on the same session
\* holds the lock now, and the other caller waits for it.
C37_Witness ==
    /\ ret.op = "throw"
    /\ \E c \in SessionCallers, d \in SessionCallers :
          /\ sessionCalls[c].pc = "locked" /\ sessionCalls[c].sessionId = ret.n
          /\ sessionCalls[d].pc = "waiting" /\ sessionCalls[d].sessionId = ret.n

\* Where the id stands in the order of last access.
AccessRank(id) == CHOOSE i \in 1..Len(recency) : recency[i] = id

\* The step put a session in the cache and the cache dropped another for it.
Evicted ==
    IF CacheIds(cache') \ CacheIds(cache) = {} THEN {}
    ELSE (CacheIds(cache) \ CacheIds(cache')) \cap DOMAIN storage'

\* C38: the cache never holds more than maxCacheSize sessions after any
\* operation, and when an insertion overflows it the session evicted is the
\* least recently accessed one, reads through getSession counting as accesses.
C38_CacheEvictsLeastRecent ==
    [][/\ Len(cache') <= maxCacheSize
       /\ \A gone \in Evicted : \A kept \in CacheIds(cache) \cap CacheIds(cache') :
             AccessRank(gone) < AccessRank(kept)]_vars

----------------------------------------------------------------------------
(* Properties of the gateway's rate limiter *)

\* The frames of the connection the limiter accepted in the minute up to at.
AcceptedInMinute(state, at) ==
    {i \in 1..Len(state.accepted) :
        state.accepted[i] > at - oneMinute /\ state.accepted[i] <= at}

\* C39: for each connection the number of messages the rate limiter accepts
\* within any minute never exceeds the configured maximum; a message is
\* rejected when the messages accepted in the last minute have reached the
\* maximum, and then it is answered with the rate_limit error alone, neither
\* parsed nor dispatched; it does not count against later messages: what the
\* limiter counts is the accepted messages of the last minute.
C39_RateLimitPerConnection ==
    [][\A c \in Connections :
          LET before == connections[c]
              after  == connections'[c]
              full   == Len(Recent(before.accepted, wallClock)) >= rateLimitPerMinute
          IN  /\ \A at \in 0..MaxTime :
                    Cardinality(AcceptedInMinute(after, at)) <= rateLimitPerMinute
              /\ Recent(after.timestamps, wallClock') = Recent(after.accepted, wallClock')
              /\ after # before =>
                    /\ after.sent = "rate_limit" <=> full
                    /\ after.sent \in {"pong", "parse_error"} <=> ~full
                    /\ after.accepted =
                          IF full THEN before.accepted
                          ELSE Append(before.accepted, wallClock)]_vars

\* A connection had its limit of frames accepted and one rejected, had more
\* accepted after the minute had passed, and has one rejected again, while
\* the other connection has a frame accepted in the same minute.
C39_Witness ==
    \E c \in Connections, d \in Connections :
        /\ c # d
        /\ connections[c].sent = "rate_limit"
        /\ Len(connections[c].accepted) = 2 * rateLimitPerMinute
        /\ connections[d].sent = "pong"
        /\ AcceptedInMinute(connections[d], wallClock) # {}

====
